---- MODULE Spec2Model ----
(***************************************************************************)
(* A model of the SQLite -> MySQL migrator: the dependency resolver        *)
(* (sort_tables_by_dependency), the schema applier (create_mysql_schema,   *)
(* add_foreign_keys), the pipeline (migrate_database) and the DDL          *)
(* translator (convert_create_table_statement).                            *)
(*                                                                         *)
(* Tables are numbered 1..n in extraction order (the order of the rows of  *)
(* sqlite_master); Missing stands for a referenced table that is not in    *)
(* the extracted table set.                                                *)
(***************************************************************************)
EXTENDS Integers, Sequences, FiniteSets, TLC

\* ------------------------------------------------------------------ bounds
NumTables == 3
MaxFks == 3
NumSourceTables == 3
NumSchemaTables == 3
NumDataTables == 2
MaxRows == 2
MaxFkColumns == 3

Missing == 0

VARIABLES
    pc,                 \* the position of the run
    tables,             \* the (name, sql) rows handed to sort_tables_by_dependency
    sqlite_fks,         \* the source: PRAGMA foreign_key_list per table (fk[2] of each row)
    bt,                 \* index of the outer loop of the graph construction
    foreign_keys,       \* rows of the current table not yet visited by the inner loop
    dependency_graph,   \* referenced table -> set of dependent tables
    in_degree,          \* table -> counter
    sorted_tables,      \* the ordering being built
    no_dependencies,    \* the deque of the Kahn pass
    table,              \* the table popped last
    dependents,         \* members of dependency_graph[table] the for loop has not visited yet
    circular_warning,   \* the "Circular dependencies detected" warning was logged
    created_tables,     \* create_mysql_schema.created_tables
    failed_tables,      \* create_mysql_schema.failed_tables
    all_foreign_keys,   \* the dict, as its items <<table, clauses>> in insertion order
    ct,                 \* index of the loop of create_mysql_schema in the sorted tables
    executed,           \* the tables whose CREATE statement was sent to the target
    rejected,           \* those among them the target rejected
    pending,            \* statements executed in the open transaction of the connection
    committed,          \* statements committed
    rolled_back,        \* statements that had succeeded and were undone by a rollback
    mysql_tables,       \* the tables the target holds (SHOW TABLES)
    to_transfer,        \* tables transfer_data_with_pandas has not reached yet
    transferred,        \* tables whose rows were written to the target
    ft,                 \* index of the table loop of add_foreign_keys
    fi,                 \* index of its clause loop
    fk_log,             \* what happened to each clause reached: <<table, index, outcome>>
    add_result,         \* what add_foreign_keys returned
    schemas_match,      \* what compare_schemas returned
    to_compare,         \* tables compare_data has not reached yet
    compared,           \* tables compare_data read
    data_match,         \* "False" once compare_data met a mismatch
    log,                \* the reports of migrate_database and main, in order
    raised,             \* where the exception that main catches came from
    sqlite_statement,   \* convert_create_table_statement: its argument
    mysql_statement,    \* its local mysql_statement
    convert_foreign_keys, \* its local foreign_keys
    declared_type,      \* the type text a type mapper is called on
    returned_type,      \* what the type mapper returned
    sqlite_table_set,   \* compare_schemas: sqlite_tables, the tables of the source
    mysql_table_set,    \* compare_schemas: mysql_tables, the tables of the target
    differing,          \* the tables whose normalized column sets differ
    unvisited,          \* tables the loop of compare_schemas has not visited yet
    examined,           \* tables whose columns compare_schemas compared
    schema_log,         \* what compare_schemas logged
    schema_result,      \* what compare_schemas returned
    data_tables,        \* compare_data: its argument tables
    sqlite_counts,      \* table -> len(sqlite_df)
    mysql_counts,       \* table -> len(mysql_df)
    equal_frames,       \* table -> sqlite_df.equals(mysql_df)
    dt,                 \* index of the loop of compare_data
    row_compared,       \* tables sqlite_df.compare(mysql_df) was called on
    data_log,           \* what compare_data logged
    data_result,        \* what compare_data returned
    fk_rows,            \* update_foreign_key_column_types: the foreign key columns
    rk,                 \* index of its loop in them
    alter_log,          \* what happened to each column reached: <<index, outcome>>
    reconcile_raised,   \* where an exception left the loop, or "none"
    reconcile_result,   \* what update_foreign_key_column_types returned
    fk_text,            \* add_foreign_keys on one clause: the clause fk
    fk_sql,             \* the statement rendered for it
    sqlite_conn,        \* main: "unbound", "None" or "connection"
    mysql_conn,         \* main: "unbound", "None" or "engine"
    attempts,           \* the counter of the retry wrapper of connect_sqlite
    main_log,           \* what main and the calls it makes logged
    unhandled,          \* the exception main ended with, or "none"
    retry_max,          \* retry: the max_attempts the decorator was given
    retry_attempts,     \* the attempts counter of the wrapper
    retry_events,       \* per call of func what it returned or raised, and "sleep"
    retry_outcome       \* <<>>, then <<"returned", value>> or <<"raised", exception>>

sortVars == <<tables, sqlite_fks, bt, foreign_keys, dependency_graph, in_degree,
              sorted_tables, no_dependencies, table, dependents, circular_warning>>

createVars == <<created_tables, failed_tables, all_foreign_keys, ct, executed, rejected,
                pending, committed, rolled_back, mysql_tables>>

transferVars == <<to_transfer, transferred>>

fkVars == <<ft, fi, fk_log, add_result>>

validateVars == <<schemas_match, to_compare, compared, data_match>>

migrateVars == <<createVars, transferVars, fkVars, validateVars, log, raised>>

convertVars == <<sqlite_statement, mysql_statement, convert_foreign_keys>>

\* The type mappers called on their own.
typeVars == <<declared_type, returned_type>>

\* compare_schemas and compare_data called on their own.
schemaVars ==
    <<sqlite_table_set, mysql_table_set, differing, unvisited, examined, schema_log,
      schema_result>>

dataVars ==
    <<data_tables, sqlite_counts, mysql_counts, equal_frames, dt, row_compared, data_log,
      data_result>>

\* update_foreign_key_column_types called on its own.
reconcileVars == <<fk_rows, rk, alter_log, reconcile_raised, reconcile_result>>

\* add_foreign_keys called on one clause.
renderVars == <<fk_text, fk_sql>>

\* main up to the calls it makes.
mainVars == <<sqlite_conn, mysql_conn, attempts, main_log, unhandled>>

\* The wrapper made by retry called on its own.
retryVars == <<retry_max, retry_attempts, retry_events, retry_outcome>>

otherVars == <<typeVars, schemaVars, dataVars, reconcileVars, renderVars, mainVars, retryVars>>

vars == <<pc, sortVars, migrateVars, convertVars, otherVars>>

\* ---------------------------------------------------------------- helpers
Range(s) == {s[i] : i \in 1..Len(s)}

IsSorted(s) == \A i \in 1..(Len(s) - 1) : s[i] <= s[i + 1]

\* The sequences over S of length at most n.
SeqsUpTo(S, n) == UNION {[1..k -> S] : k \in 0..n}

\* -------------------------------------------------------------------- text
\* A text is a sequence of characters, each a string of length one; the regular
\* expressions of the source are matched on it character by character.

LowerCase ==
    <<"a", "b", "c", "d", "e", "f", "g", "h", "i", "j", "k", "l", "m",
      "n", "o", "p", "q", "r", "s", "t", "u", "v", "w", "x", "y", "z">>

UpperCase ==
    <<"A", "B", "C", "D", "E", "F", "G", "H", "I", "J", "K", "L", "M",
      "N", "O", "P", "Q", "R", "S", "T", "U", "V", "W", "X", "Y", "Z">>

\* The backtick, which a string of this notation cannot hold.
Backtick == "backtick"

Digits == {"0", "1", "2", "3", "4", "5", "6", "7", "8", "9"}

\* \w, \s and \d of the re module
WordChars == Range(LowerCase) \cup Range(UpperCase) \cup Digits \cup {"_"}
Spaces == {" ", "\t", "\n"}

\* str.upper and str.lower, one character
Upper(c) ==
    IF c \in Range(LowerCase)
      THEN UpperCase[CHOOSE i \in 1..26 : LowerCase[i] = c]
      ELSE c

Lower(c) ==
    IF c \in Range(UpperCase)
      THEN LowerCase[CHOOSE i \in 1..26 : UpperCase[i] = c]
      ELSE c

UpperStr(s) == [i \in 1..Len(s) |-> Upper(s[i])]
LowerStr(s) == [i \in 1..Len(s) |-> Lower(s[i])]

\* s[a:b] of Python with 1-based a and exclusive b
Slice(s, a, b) == IF b <= a THEN <<>> ELSE SubSeq(s, a, b - 1)

\* The literal lit stands in s at index i.
StartsAt(s, i, word) ==
    /\ i + Len(word) - 1 <= Len(s)
    /\ \A k \in 1..Len(word) : s[i + k - 1] = word[k]

\* The same under re.IGNORECASE.
StartsAtCI(s, i, word) ==
    /\ i + Len(word) - 1 <= Len(s)
    /\ \A k \in 1..Len(word) : Upper(s[i + k - 1]) = Upper(word[k])

\* A greedy run of a character class from i: the index after it.
Skip(s, i, class) ==
    IF i > Len(s) THEN i
    ELSE CHOOSE j \in i..(Len(s) + 1) :
           /\ j = Len(s) + 1 \/ s[j] \notin class
           /\ \A k \in i..(j - 1) : s[k] \in class

\* A greedy run of [^c] from i: the index of the next c, or Len(s) + 1.
SkipUntil(s, i, c) ==
    IF i > Len(s) THEN i
    ELSE CHOOSE j \in i..(Len(s) + 1) :
           /\ j = Len(s) + 1 \/ s[j] = c
           /\ \A k \in i..(j - 1) : s[k] # c

\* old in s
Contains(s, old) == \E i \in 1..Len(s) : StartsAt(s, i, old)

\* The scan of re.sub, re.findall and str.replace. A pattern is given by End(s, i):
\* the index after its match at i, or 0 when it does not match there (no pattern of
\* the source matches the empty text). ends lists End at every index.
MatchEnds(s, End(_, _)) ==
    LET ends == [i \in 1..Len(s) |-> End(s, i)]
    IN SubSeq(ends, 1, Len(s))

\* The first match at or after pos, or 0.
NextMatch(ends, pos) ==
    IF \E j \in pos..Len(ends) : ends[j] # 0
      THEN CHOOSE j \in pos..Len(ends) :
             ends[j] # 0 /\ \A k \in pos..(j - 1) : ends[k] = 0
      ELSE 0

\* The matches the scan takes: leftmost first, each search resuming where the
\* match before it ended.
RECURSIVE Selected(_, _)
Selected(ends, pos) ==
    LET j == NextMatch(ends, pos)
    IN IF j = 0 THEN <<>> ELSE <<j>> \o Selected(ends, ends[j])

\* The concatenation of parts[lo..hi].
RECURSIVE Concat(_, _, _)
Concat(parts, lo, hi) ==
    IF lo > hi THEN <<>>
    ELSE IF lo = hi THEN parts[lo]
    ELSE Concat(parts, lo, (lo + hi) \div 2) \o Concat(parts, ((lo + hi) \div 2) + 1, hi)

\* re.sub: the text between the matches kept, each match replaced by Repl(s, i, end).
Sub(s, End(_, _), Repl(_, _, _)) ==
    LET ends == MatchEnds(s, End)
        sel == Selected(ends, 1)
        n == Len(sel)
        parts == [k \in 1..(2 * n + 1) |->
                    IF k % 2 = 1
                      THEN Slice(s, IF k = 1 THEN 1 ELSE ends[sel[(k - 1) \div 2]],
                                    IF k = 2 * n + 1 THEN Len(s) + 1 ELSE sel[(k + 1) \div 2])
                      ELSE Repl(s, sel[k \div 2], ends[sel[k \div 2]])]
    IN Concat(parts, 1, 2 * n + 1)

\* re.findall for a pattern without groups: the matched texts.
FindAll(s, End(_, _)) ==
    LET ends == MatchEnds(s, End)
        sel == Selected(ends, 1)
    IN [k \in 1..Len(sel) |-> Slice(s, sel[k], ends[sel[k]])]

\* str.replace(old, new): every occurrence, left to right, not overlapping
Replace(s, old, new) ==
    Sub(s, LAMBDA t, i : IF StartsAt(t, i, old) THEN i + Len(old) ELSE 0,
           LAMBDA t, i, e : new)

\* re.sub(old, new, s, flags=re.IGNORECASE) for a literal pattern
SubLiteral(s, old, new) ==
    Sub(s, LAMBDA t, i : IF StartsAtCI(t, i, old) THEN i + Len(old) ELSE 0,
           LAMBDA t, i, e : new)

\* str.strip()
Strip(s) ==
    LET first == Skip(s, 1, Spaces)
        last == IF \E j \in 1..Len(s) : s[j] \notin Spaces
                  THEN CHOOSE j \in 1..Len(s) :
                         s[j] \notin Spaces /\ \A k \in (j + 1)..Len(s) : s[k] \in Spaces
                  ELSE 0
    IN Slice(s, first, last + 1)

\* ------------------------------------------------------ sqlite_to_mysql_type

Str_INTEGER ==
    <<"I", "N", "T", "E", "G", "E", "R">>
Str_REAL ==
    <<"R", "E", "A", "L">>
Str_TEXT ==
    <<"T", "E", "X", "T">>
Str_BLOB ==
    <<"B", "L", "O", "B">>
Str_BOOLEAN ==
    <<"B", "O", "O", "L", "E", "A", "N">>
Str_DATETIME ==
    <<"D", "A", "T", "E", "T", "I", "M", "E">>
Str_DATE ==
    <<"D", "A", "T", "E">>
Str_TIME ==
    <<"T", "I", "M", "E">>
Str_BIGINT ==
    <<"B", "I", "G", "I", "N", "T">>
Str_DOUBLE ==
    <<"D", "O", "U", "B", "L", "E">>
Str_TINYINT_1 ==
    <<"T", "I", "N", "Y", "I", "N", "T", "(", "1", ")">>

\* type_mapping of sqlite_to_mysql_type, in the order of the dict
ddl_type_mapping ==
    << <<Str_INTEGER, Str_BIGINT>>,
       <<Str_REAL, Str_DOUBLE>>,
       <<Str_TEXT, Str_TEXT>>,
       <<Str_BLOB, Str_BLOB>>,
       <<Str_BOOLEAN, Str_TINYINT_1>>,
       <<Str_DATETIME, Str_DATETIME>>,
       <<Str_DATE, Str_DATE>>,
       <<Str_TIME, Str_TIME>>,
       <<Str_BIGINT, Str_BIGINT>> >>

\* for sqlite, mysql in type_mapping.items(): if base_type.startswith(sqlite): return mysql
RECURSIVE FirstPrefix(_, _, _, _)
FirstPrefix(mapping, k, base_type, otherwise) ==
    IF k > Len(mapping) THEN otherwise
    ELSE IF StartsAt(base_type, 1, mapping[k][1]) THEN mapping[k][2]
    ELSE FirstPrefix(mapping, k + 1, base_type, otherwise)

\* The declared type in upper case, whatever it is.
DeclaredType(sqlite_type) == UpperStr(sqlite_type)

\* The text before the first parenthesis, in the letter case it was written in.
BaseTypeAsWritten(sqlite_type) == Slice(sqlite_type, 1, SkipUntil(sqlite_type, 1, "("))

\* base_type = sqlite_type.split('(')[0].upper()
BaseType(sqlite_type) ==
    UpperStr(Slice(sqlite_type, 1, SkipUntil(sqlite_type, 1, "(")))

sqlite_to_mysql_type(sqlite_type) ==
    FirstPrefix(ddl_type_mapping, 1, BaseType(sqlite_type), sqlite_type)

\* -------------------------------------------------------------- normalize_type

Str_INT ==
    <<"I", "N", "T">>
Str_SMALLINT ==
    <<"S", "M", "A", "L", "L", "I", "N", "T">>
Str_TINYINT ==
    <<"T", "I", "N", "Y", "I", "N", "T">>
Str_FLOAT ==
    <<"F", "L", "O", "A", "T">>
Str_NUMERIC ==
    <<"N", "U", "M", "E", "R", "I", "C">>
Str_DECIMAL ==
    <<"D", "E", "C", "I", "M", "A", "L">>
Str_VARCHAR ==
    <<"V", "A", "R", "C", "H", "A", "R">>
Str_CHAR ==
    <<"C", "H", "A", "R">>
Str_CLOB ==
    <<"C", "L", "O", "B">>
Str_NVARCHAR ==
    <<"N", "V", "A", "R", "C", "H", "A", "R">>
Str_NCHAR ==
    <<"N", "C", "H", "A", "R">>

\* type_mapping of normalize_type, in the order of the dict
compare_type_mapping ==
    << <<Str_INT, Str_BIGINT>>,
       <<Str_INTEGER, Str_BIGINT>>,
       <<Str_BIGINT, Str_BIGINT>>,
       <<Str_SMALLINT, Str_INT>>,
       <<Str_TINYINT, Str_INT>>,
       <<Str_FLOAT, Str_DOUBLE>>,
       <<Str_DOUBLE, Str_DOUBLE>>,
       <<Str_REAL, Str_DOUBLE>>,
       <<Str_NUMERIC, Str_DOUBLE>>,
       <<Str_DECIMAL, Str_DOUBLE>>,
       <<Str_BOOLEAN, Str_TINYINT_1>>,
       <<Str_TEXT, Str_TEXT>>,
       <<Str_BLOB, Str_BLOB>>,
       <<Str_DATETIME, Str_DATETIME>>,
       <<Str_DATE, Str_DATE>>,
       <<Str_TIME, Str_TIME>>,
       <<Str_VARCHAR, Str_TEXT>>,
       <<Str_CHAR, Str_TEXT>>,
       <<Str_CLOB, Str_TEXT>>,
       <<Str_NVARCHAR, Str_TEXT>>,
       <<Str_NCHAR, Str_TEXT>> >>

\* The key stands at the start of the text.
KeyLeads(key, normalized) == StartsAt(normalized, 1, key)

\* key in normalized
KeyIn(key, normalized) == Contains(normalized, key)

\* for key, value in type_mapping.items(): if key in normalized: return value
RECURSIVE FirstContained(_, _, _)
FirstContained(mapping, k, normalized) ==
    IF k > Len(mapping) THEN normalized
    ELSE IF KeyIn(mapping[k][1], normalized) THEN mapping[k][2]
    ELSE FirstContained(mapping, k + 1, normalized)

normalize_type(data_type) == FirstContained(compare_type_mapping, 1, UpperStr(data_type))

\* -------------------------------------------- convert_create_table_statement

Str_CREATE_TABLE ==
    <<"C", "R", "E", "A", "T", "E", " ", "T", "A", "B", "L", "E">>
Str_CREATE_TABLE_SP ==
    <<"C", "R", "E", "A", "T", "E", " ", "T", "A", "B", "L", "E", " ">>
Str_AUTOINCREMENT ==
    <<"A", "U", "T", "O", "I", "N", "C", "R", "E", "M", "E", "N", "T">>
Str_SP_AUTO_INCREMENT_SP ==
    <<" ", "A", "U", "T", "O", "_", "I", "N", "C", "R", "E", "M", "E", "N", "T", " ">>
Str_AUTO_INCREMENT ==
    <<"A", "U", "T", "O", "_", "I", "N", "C", "R", "E", "M", "E", "N", "T">>
Str_NOT ==
    <<"N", "O", "T">>
Str_NULL ==
    <<"N", "U", "L", "L">>
Str_PRIMARY ==
    <<"P", "R", "I", "M", "A", "R", "Y">>
Str_KEY ==
    <<"K", "E", "Y">>
Str_DEFAULT ==
    <<"D", "E", "F", "A", "U", "L", "T">>
Str_not_null ==
    <<"n", "o", "t", " ", "n", "u", "l", "l">>
Str_NOT_NULL_SP ==
    <<"N", "O", "T", " ", "N", "U", "L", "L", " ">>
Str_NOT_NULL_NOT_NULL ==
    <<"N", "O", "T", " ", "N", "U", "L", "L", " ", "N", "O", "T", " ", "N", "U", "L",
      "L">>
Str_primary_key ==
    <<"p", "r", "i", "m", "a", "r", "y", " ", "k", "e", "y">>
Str_PRIMARY_KEY ==
    <<"P", "R", "I", "M", "A", "R", "Y", " ", "K", "E", "Y">>
Str_PRIMARY_KEY_SP ==
    <<"P", "R", "I", "M", "A", "R", "Y", " ", "K", "E", "Y", " ">>
Str_PRIMARY_KEY_AUTO_INCREMENT ==
    <<"P", "R", "I", "M", "A", "R", "Y", " ", "K", "E", "Y", " ", "A", "U", "T", "O",
      "_", "I", "N", "C", "R", "E", "M", "E", "N", "T">>
Str_CONSTRAINT ==
    <<"C", "O", "N", "S", "T", "R", "A", "I", "N", "T">>
Str_FOREIGN_KEY ==
    <<"F", "O", "R", "E", "I", "G", "N", " ", "K", "E", "Y">>
Str_REFERENCES ==
    <<"R", "E", "F", "E", "R", "E", "N", "C", "E", "S">>
Str_CHARSET ==
    <<" ", "D", "E", "F", "A", "U", "L", "T", " ", "C", "H", "A", "R", "S", "E", "T",
      "=", "u", "t", "f", "8", "m", "b", "4", " ", "C", "O", "L", "L", "A", "T", "E",
      "=", "u", "t", "f", "8", "m", "b", "4", "_", "u", "n", "i", "c", "o", "d", "e",
      "_", "c", "i">>

\* re.sub(r'CREATE TABLE', 'CREATE TABLE ', sqlite_statement, flags=re.IGNORECASE)
SubCreateTable(s) == SubLiteral(s, Str_CREATE_TABLE, Str_CREATE_TABLE_SP)

\* re.sub(r'\s*AUTOINCREMENT\s*', ' AUTO_INCREMENT ', s.strip(), flags=re.IGNORECASE)
AutoIncrementEnd(s, i) ==
    LET j == Skip(s, i, Spaces)
    IN IF StartsAtCI(s, j, Str_AUTOINCREMENT)
         THEN Skip(s, j + Len(Str_AUTOINCREMENT), Spaces)
         ELSE 0

SubAutoIncrement(s) ==
    Sub(Strip(s), AutoIncrementEnd, LAMBDA t, i, e : Str_SP_AUTO_INCREMENT_SP)

\* (?:\(\d+\))? at e: the index after it
SizeEnd(s, e) ==
    LET d == Skip(s, e + 1, Digits)
    IN IF e <= Len(s) /\ s[e] = "(" /\ d > e + 1 /\ d <= Len(s) /\ s[d] = ")"
         THEN d + 1
         ELSE e

\* (?:first)?\s*second at g: the index after it, or 0 when it does not match
OptionalThen(s, g, first, second) ==
    LET withFirst == Skip(s, g + Len(first), Spaces)
        without == Skip(s, g, Spaces)
    IN IF StartsAtCI(s, g, first) /\ StartsAtCI(s, withFirst, second)
         THEN withFirst + Len(second)
         ELSE IF StartsAtCI(s, without, second)
           THEN without + Len(second)
           ELSE 0

\* ((?:(?:NOT)?\s*NULL|(?:PRIMARY)?\s*KEY|DEFAULT\s*[^,]+)?) at g: the index after it
ConstraintEnd(s, g) ==
    LET notNull == OptionalThen(s, g, Str_NOT, Str_NULL)
        primaryKey == OptionalThen(s, g, Str_PRIMARY, Str_KEY)
        afterDefault == g + Len(Str_DEFAULT)
        defaultEnd == SkipUntil(s, afterDefault, ",")
    IN IF notNull # 0 THEN notNull
       ELSE IF primaryKey # 0 THEN primaryKey
       ELSE IF StartsAtCI(s, g, Str_DEFAULT) /\ defaultEnd > afterDefault THEN defaultEnd
       ELSE g

\* (`?\w+`?)\s+(\w+(?:\(\d+\))?)\s*(...) at i: whether it matches, its groups as
\* pairs <<start, end>> with the end exclusive, and the index after the match. Each
\* greedy run is a full run: a shorter one leaves a character the next item cannot
\* match.
ColumnMatch(s, i) ==
    LET a == IF i <= Len(s) /\ s[i] = Backtick THEN i + 1 ELSE i
        b == Skip(s, a, WordChars)
        c == IF b <= Len(s) /\ s[b] = Backtick THEN b + 1 ELSE b
        d == Skip(s, c, Spaces)
        e == Skip(s, d, WordChars)
        f == SizeEnd(s, e)
        g == Skip(s, f, Spaces)
        h == ConstraintEnd(s, g)
    IN [ok |-> b > a /\ d > c /\ e > d,
        group1 |-> <<i, c>>, group2 |-> <<d, f>>, group3 |-> <<g, h>>,
        end |-> IF h > g THEN h ELSE g]

Str_SP ==
    <<" ">>

\* replace_type: the re-typed column with its re-cased constraints
RecaseNotNull(constraints) ==
    IF Contains(LowerStr(constraints), Str_not_null)
      THEN Replace(Replace(constraints, Str_not_null, Str_NOT_NULL_SP),
                   Str_NOT_NULL_NOT_NULL, Str_NOT_NULL_SP)
      ELSE constraints

RecasePrimaryKey(constraints) ==
    IF Contains(LowerStr(constraints), Str_primary_key)
      THEN Replace(constraints, Str_primary_key, Str_PRIMARY_KEY_SP)
      ELSE constraints

replace_type(s, i, end) ==
    LET match == ColumnMatch(s, i)
        column_name == Slice(s, match.group1[1], match.group1[2])
        sqlite_data_type == Slice(s, match.group2[1], match.group2[2])
        data_type == sqlite_to_mysql_type(sqlite_data_type)
        constraints == Slice(s, match.group3[1], match.group3[2])
    IN column_name \o Str_SP \o data_type \o Str_SP
         \o RecasePrimaryKey(RecaseNotNull(constraints))

\* re.sub(<column pattern>, replace_type, mysql_statement, flags=re.IGNORECASE)
ColumnEnd(s, i) == LET match == ColumnMatch(s, i) IN IF match.ok THEN match.end ELSE 0

SubColumns(s) == Sub(s, ColumnEnd, replace_type)

\* re.sub(r'PRIMARY KEY\s*AUTO_INCREMENT', 'PRIMARY KEY AUTO_INCREMENT', ...)
PrimaryKeyAutoEnd(s, i) ==
    LET j == Skip(s, i + Len(Str_PRIMARY_KEY), Spaces)
    IN IF StartsAtCI(s, i, Str_PRIMARY_KEY) /\ StartsAtCI(s, j, Str_AUTO_INCREMENT)
         THEN j + Len(Str_AUTO_INCREMENT)
         ELSE 0

SubPrimaryKeyAuto(s) ==
    Sub(s, PrimaryKeyAutoEnd, LAMBDA t, i, e : Str_PRIMARY_KEY_AUTO_INCREMENT)

\* mysql_statement.replace('"', '`')
ReplaceQuotes(s) == Replace(s, <<"\"">>, <<Backtick>>)

\* CONSTRAINT\s+`?\w+`?\s+FOREIGN KEY\s*\([^)]+\)\s*REFERENCES\s*[^)]+\)[^,]* at i:
\* the index after the match, or 0 when it does not match
ForeignKeyMatch(s, i) ==
    LET a == Skip(s, i + Len(Str_CONSTRAINT), Spaces)
        b == IF a <= Len(s) /\ s[a] = Backtick THEN a + 1 ELSE a
        c == Skip(s, b, WordChars)
        d == IF c <= Len(s) /\ s[c] = Backtick THEN c + 1 ELSE c
        e == Skip(s, d, Spaces)
        f == Skip(s, e + Len(Str_FOREIGN_KEY), Spaces)
        g == SkipUntil(s, f + 1, ")")
        h == Skip(s, g + 1, Spaces)
        k == h + Len(Str_REFERENCES)
        l == SkipUntil(s, k, ")")
    IN IF /\ StartsAtCI(s, i, Str_CONSTRAINT)
          /\ a > i + Len(Str_CONSTRAINT)
          /\ c > b
          /\ e > d
          /\ StartsAtCI(s, e, Str_FOREIGN_KEY)
          /\ f <= Len(s) /\ s[f] = "("
          /\ g > f + 1 /\ g <= Len(s)
          /\ StartsAtCI(s, h, Str_REFERENCES)
          /\ l > k /\ l <= Len(s)
         THEN SkipUntil(s, l + 1, ",")
         ELSE 0

\* re.findall(<foreign key pattern>, mysql_statement, flags=re.IGNORECASE)
FindForeignKeys(s) == FindAll(s, ForeignKeyMatch)

\* for fk in foreign_keys: mysql_statement = mysql_statement.replace(f", {fk}", "")
RECURSIVE StripForeignKeys(_, _)
StripForeignKeys(s, fks) ==
    IF fks = <<>> THEN s
    ELSE StripForeignKeys(Replace(s, <<",", " ">> \o Head(fks), <<>>), Tail(fks))

\* re.sub(r',\s*\)', ')', mysql_statement)
CommaParenEnd(s, i) ==
    LET j == Skip(s, i + 1, Spaces)
    IN IF s[i] = "," /\ j <= Len(s) /\ s[j] = ")" THEN j + 1 ELSE 0

SubCommaParen(s) == Sub(s, CommaParenEnd, LAMBDA t, i, e : <<")">>)

\* re.sub(r'`\(', '` (', mysql_statement)
SubBacktickParen(s) == Replace(s, <<Backtick, "(">>, <<Backtick, " ", "(">>)

\* The statement up to the extraction of the foreign keys.
ConvertBody(definition) ==
    ReplaceQuotes(SubPrimaryKeyAuto(SubColumns(SubAutoIncrement(
        SubCreateTable(definition)))))

\* The statement after the extraction.
ConvertTail(body, fks) ==
    Strip(SubBacktickParen(SubCommaParen(StripForeignKeys(body, fks))) \o Str_CHARSET)

\* convert_create_table_statement: <<mysql_statement, foreign_keys>>
convert_create_table_statement(definition) ==
    LET body == ConvertBody(definition)
        fks == FindForeignKeys(body)
    IN <<ConvertTail(body, fks), fks>>

\* ----------------------------------------------- add_foreign_keys: the pattern

Str_ON_DELETE_SP ==
    <<"O", "N", " ", "D", "E", "L", "E", "T", "E", " ">>
Str_ON_UPDATE_SP ==
    <<"O", "N", " ", "U", "P", "D", "A", "T", "E", " ">>
Str_RESTRICT ==
    <<"R", "E", "S", "T", "R", "I", "C", "T">>

\* `?(\w+)`? at i: the group as <<start, end>> and the index after the item; the
\* group is empty when no word stands there.
QuotedWord(s, i) ==
    LET a == IF i <= Len(s) /\ s[i] = Backtick THEN i + 1 ELSE i
        b == Skip(s, a, WordChars)
        c == IF b <= Len(s) /\ s[b] = Backtick THEN b + 1 ELSE b
    IN [ok |-> b > a, group |-> <<a, b>>, end |-> c]

\* (\s+ON DELETE (\w+(\s+\w+)?)?)? at i, for keyword "ON DELETE " or "ON UPDATE ":
\* the inner group as <<start, end>> (empty when it took no part) and the index after
\* the item, which is i when the item is skipped.
ActionClause(s, i, keyword) ==
    LET a == Skip(s, i, Spaces)
        b == a + Len(keyword)
        c == Skip(s, b, WordChars)
        d == Skip(s, c, Spaces)
        e == Skip(s, d, WordChars)
        wordEnd == IF c > b /\ d > c /\ e > d THEN e ELSE c
    IN IF a > i /\ StartsAtCI(s, a, keyword)
         THEN [group |-> <<b, wordEnd>>, end |-> wordEnd]
         ELSE [group |-> <<i, i>>, end |-> i]

\* re.match(r'CONSTRAINT\s+`?(\w+)`?\s+FOREIGN KEY\s*\(`?(\w+)`?\)\s*REFERENCES\s*
\* `?(\w+)`?\s*\(`?(\w+)`?\)(\s+ON DELETE (\w+(\s+\w+)?)?)?(\s+ON UPDATE
\* (\w+(\s+\w+)?)?)?', fk, re.IGNORECASE): whether it matches at the start of fk, and
\* the texts of its groups 1, 2, 3, 4, 6 and 9.
ForeignKeyParse(fk) ==
    LET a == Skip(fk, 1 + Len(Str_CONSTRAINT), Spaces)
        name == QuotedWord(fk, a)
        b == Skip(fk, name.end, Spaces)
        c == Skip(fk, b + Len(Str_FOREIGN_KEY), Spaces)
        column == QuotedWord(fk, c + 1)
        d == Skip(fk, column.end + 1, Spaces)
        e == Skip(fk, d + Len(Str_REFERENCES), Spaces)
        refTable == QuotedWord(fk, e)
        f == Skip(fk, refTable.end, Spaces)
        refColumn == QuotedWord(fk, f + 1)
        g == refColumn.end + 1
        onDelete == ActionClause(fk, g, Str_ON_DELETE_SP)
        onUpdate == ActionClause(fk, onDelete.end, Str_ON_UPDATE_SP)
        text(group) == Slice(fk, group[1], group[2])
    IN [ok |-> /\ StartsAtCI(fk, 1, Str_CONSTRAINT)
               /\ a > 1 + Len(Str_CONSTRAINT)
               /\ name.ok
               /\ b > name.end
               /\ StartsAtCI(fk, b, Str_FOREIGN_KEY)
               /\ c <= Len(fk) /\ fk[c] = "("
               /\ column.ok
               /\ column.end <= Len(fk) /\ fk[column.end] = ")"
               /\ StartsAtCI(fk, d, Str_REFERENCES)
               /\ refTable.ok
               /\ f <= Len(fk) /\ fk[f] = "("
               /\ refColumn.ok
               /\ refColumn.end <= Len(fk) /\ fk[refColumn.end] = ")",
        constraint_name |-> text(name.group),
        fk_column |-> text(column.group),
        referenced_table |-> text(refTable.group),
        referenced_column |-> text(refColumn.group),
        group6 |-> text(onDelete.group),
        group9 |-> text(onUpdate.group)]

\* The pieces of the f-string fk_sql between its fields.
Alter_1 ==
    <<"\n", " ", " ", " ", " ", " ", " ", " ", " ", " ", " ", " ", " ", " ", " ", " ",
      " ", " ", " ", " ", " ", "A", "L", "T", "E", "R", " ", "T", "A", "B", "L", "E",
      " ", Backtick>>
Alter_2 ==
    <<Backtick, "\n", " ", " ", " ", " ", " ", " ", " ", " ", " ", " ", " ", " ", " ",
      " ", " ", " ", " ", " ", " ", " ", "A", "D", "D", " ", "C", "O", "N", "S", "T",
      "R", "A", "I", "N", "T", " ", Backtick>>
Alter_3 ==
    <<Backtick, "\n", " ", " ", " ", " ", " ", " ", " ", " ", " ", " ", " ", " ", " ",
      " ", " ", " ", " ", " ", " ", " ", "F", "O", "R", "E", "I", "G", "N", " ", "K",
      "E", "Y", " ", "(", Backtick>>
Alter_4 ==
    <<Backtick, ")", "\n", " ", " ", " ", " ", " ", " ", " ", " ", " ", " ", " ", " ",
      " ", " ", " ", " ", " ", " ", " ", " ", "R", "E", "F", "E", "R", "E", "N", "C",
      "E", "S", " ", Backtick>>
Alter_5 ==
    <<Backtick, "(", Backtick>>
Alter_6 ==
    <<Backtick, ")", "\n", " ", " ", " ", " ", " ", " ", " ", " ", " ", " ", " ", " ",
      " ", " ", " ", " ", " ", " ", " ", " ", "O", "N", " ", "D", "E", "L", "E", "T",
      "E", " ">>
Alter_7 ==
    <<" ", "O", "N", " ", "U", "P", "D", "A", "T", "E", " ">>
Alter_8 ==
    <<"\n", " ", " ", " ", " ", " ", " ", " ", " ", " ", " ", " ", " ", " ", " ", " ",
      " ", " ", " ", " ", " ">>

\* fk_sql = f"""ALTER TABLE `{table_name}` ADD CONSTRAINT `{constraint_name}` FOREIGN
\* KEY (`{fk_column}`) REFERENCES `{referenced_table}`(`{referenced_column}`) ON DELETE
\* {on_delete} ON UPDATE {on_update}""", laid out over lines as in the source
AlterText(table_name, constraint_name, fk_column, referenced_table, referenced_column, on_delete, on_update) ==
    Alter_1 \o table_name \o Alter_2 \o constraint_name \o Alter_3 \o fk_column
        \o Alter_4 \o referenced_table \o Alter_5 \o referenced_column
        \o Alter_6 \o on_delete \o Alter_7 \o on_update \o Alter_8

\* The action as the pattern took it, also when it took none.
ActionAsMatched(group) == group

\* match.group(6) if match.group(6) else 'RESTRICT' (and the same for group 9)
ActionOrRestrict(group) == IF group # <<>> THEN group ELSE Str_RESTRICT

\* The statement add_foreign_keys renders for a clause the pattern matches.
FkSql(table_name, match) ==
    AlterText(table_name, match.constraint_name, match.fk_column,
              match.referenced_table, match.referenced_column,
              ActionOrRestrict(match.group6), ActionOrRestrict(match.group9))

\* ------------------------------------------------- sort_tables_by_dependency

\* get_foreign_keys: the rows of PRAGMA foreign_key_list for one table
get_foreign_keys(table_name) == sqlite_fks[table_name]

\* in_degree = {table_name: 0 for table_name, _ in tables}; dependency_graph is a
\* defaultdict(set): every key reads as the empty set until something is added.
SortEnter ==
    /\ pc = "sort_enter"
    /\ in_degree' = [t \in Range(tables) |-> 0]
    /\ dependency_graph' = [t \in Range(tables) \cup {Missing} |-> {}]
    /\ bt' = 1
    /\ pc' = "sort_get"
    /\ UNCHANGED <<tables, sqlite_fks, foreign_keys, sorted_tables, no_dependencies,
                   table, dependents, circular_warning>>
    /\ UNCHANGED <<migrateVars, convertVars, otherVars>>

\* for table_name, _ in tables: foreign_keys = get_foreign_keys(...)
SortGetForeignKeys ==
    /\ pc = "sort_get"
    /\ IF bt <= Len(tables)
         THEN /\ foreign_keys' = get_foreign_keys(tables[bt])
              /\ pc' = "sort_fk"
         ELSE /\ foreign_keys' = <<>>
              /\ pc' = "sort_seed"
    /\ UNCHANGED <<tables, sqlite_fks, bt, dependency_graph, in_degree, sorted_tables,
                   no_dependencies, table, dependents, circular_warning>>
    /\ UNCHANGED <<migrateVars, convertVars, otherVars>>

\* One iteration of "for fk in foreign_keys": the edge and the counter.
AddEdge(graph, referenced_table, table_name) ==
    [graph EXCEPT ![referenced_table] = @ \cup {table_name}]

\* Every row counts, a self-reference too.
AnyReference(referenced_table, table_name) == TRUE

\* if referenced_table != table_name:  # Avoid self-references
OtherTable(referenced_table, table_name) == referenced_table # table_name

SortFk ==
    /\ pc = "sort_fk"
    /\ IF foreign_keys = <<>>
         THEN /\ bt' = bt + 1
              /\ pc' = "sort_get"
              /\ UNCHANGED <<foreign_keys, dependency_graph, in_degree>>
         ELSE LET table_name == tables[bt]
                  referenced_table == Head(foreign_keys)
              IN /\ foreign_keys' = Tail(foreign_keys)
                 /\ IF OtherTable(referenced_table, table_name)
                      THEN /\ dependency_graph' =
                                AddEdge(dependency_graph, referenced_table, table_name)
                           /\ in_degree' = [in_degree EXCEPT ![table_name] = @ + 1]
                      ELSE UNCHANGED <<dependency_graph, in_degree>>
                 /\ UNCHANGED <<bt, pc>>
    /\ UNCHANGED <<tables, sqlite_fks, sorted_tables, no_dependencies, table,
                   dependents, circular_warning>>
    /\ UNCHANGED <<migrateVars, convertVars, otherVars>>

\* no_dependencies = deque([table for table, degree in in_degree.items() if degree == 0]):
\* a dict keeps insertion order, which is the order of tables.
SortSeed ==
    /\ pc = "sort_seed"
    /\ sorted_tables' = <<>>
    /\ no_dependencies' = SelectSeq(tables, LAMBDA t : in_degree[t] = 0)
    /\ pc' = "sort_while"
    /\ UNCHANGED <<tables, sqlite_fks, bt, foreign_keys, dependency_graph, in_degree,
                   table, dependents, circular_warning>>
    /\ UNCHANGED <<migrateVars, convertVars, otherVars>>

\* while no_dependencies: table = popleft(); sorted_tables.append(table)
SortPop ==
    /\ pc = "sort_while"
    /\ IF no_dependencies # <<>>
         THEN /\ table' = Head(no_dependencies)
              /\ no_dependencies' = Tail(no_dependencies)
              /\ sorted_tables' = Append(sorted_tables, Head(no_dependencies))
              /\ dependents' = dependency_graph[Head(no_dependencies)]
              /\ pc' = "sort_for"
         ELSE /\ pc' = "sort_check"
              /\ UNCHANGED <<table, no_dependencies, sorted_tables, dependents>>
    /\ UNCHANGED <<tables, sqlite_fks, bt, foreign_keys, dependency_graph, in_degree,
                   circular_warning>>
    /\ UNCHANGED <<migrateVars, convertVars, otherVars>>

\* Whatever the counter, the table is put in the queue.
AnyDegree(degree) == TRUE

\* if in_degree[dependent] == 0:
NoDependencyLeft(degree) == degree = 0

\* One iteration of "for dependent in dependency_graph[table]": a set is iterated in
\* an order the program does not fix, so any member not yet visited may come next.
SortVisit ==
    /\ pc = "sort_for"
    /\ IF dependents = {}
         THEN /\ pc' = "sort_while"
              /\ UNCHANGED <<dependents, in_degree, no_dependencies>>
         ELSE \E dependent \in dependents :
                /\ dependents' = dependents \ {dependent}
                /\ in_degree' = [in_degree EXCEPT ![dependent] = @ - 1]
                /\ no_dependencies' =
                     IF NoDependencyLeft(in_degree[dependent] - 1)
                       THEN Append(no_dependencies, dependent)
                       ELSE no_dependencies
                /\ UNCHANGED pc
    /\ UNCHANGED <<tables, sqlite_fks, bt, foreign_keys, dependency_graph, sorted_tables,
                   table, circular_warning>>
    /\ UNCHANGED <<migrateVars, convertVars, otherVars>>

\* The orders in which a set can be iterated.
Orders(S) == {s \in [1..Cardinality(S) -> S] : Range(s) = S}

\* set(dict(tables).keys()) - set(sorted_tables)
LeftOverAll(all_tables, ordered) == Range(all_tables)

LeftOver(all_tables, ordered) == Range(all_tables) \ Range(ordered)

\* if len(sorted_tables) != len(tables): warning; sorted_tables.extend(set - set)
SortCheck ==
    /\ pc = "sort_check"
    /\ IF Len(sorted_tables) # Len(tables)
         THEN /\ circular_warning' = TRUE
              /\ \E rest \in Orders(LeftOver(tables, sorted_tables)) :
                    sorted_tables' = sorted_tables \o rest
         ELSE UNCHANGED <<circular_warning, sorted_tables>>
    /\ pc' = "sort_return"
    /\ UNCHANGED <<tables, sqlite_fks, bt, foreign_keys, dependency_graph, in_degree,
                   no_dependencies, table, dependents>>
    /\ UNCHANGED <<migrateVars, convertVars, otherVars>>

SortNext ==
    \/ SortEnter
    \/ SortGetForeignKeys
    \/ SortFk
    \/ SortSeed
    \/ SortPop
    \/ SortVisit
    \/ SortCheck

\* -------------------------------------------------------------- the source
\* The tables a run migrates are the first n of this catalog, in this order (the
\* order of sqlite_master). refs names, per row of PRAGMA foreign_key_list, the
\* catalog index of the referenced table (0: a table that is not in the catalog).

Sql_items ==
    <<"C", "R", "E", "A", "T", "E", " ", "T", "A", "B", "L", "E", " ", "i", "t", "e",
      "m", "s", " ", "(", "i", "d", " ", "I", "N", "T", "E", "G", "E", "R", " ", "P",
      "R", "I", "M", "A", "R", "Y", " ", "K", "E", "Y", ",", " ", "o", "r", "d", "e",
      "r", "_", "i", "d", " ", "I", "N", "T", "E", "G", "E", "R", ",", " ", "u", "s",
      "e", "r", "_", "i", "d", " ", "I", "N", "T", "E", "G", "E", "R", ",", " ", "C",
      "O", "N", "S", "T", "R", "A", "I", "N", "T", " ", "f", "k", "_", "o", "r", "d",
      "e", "r", " ", "F", "O", "R", "E", "I", "G", "N", " ", "K", "E", "Y", " ", "(",
      "o", "r", "d", "e", "r", "_", "i", "d", ")", " ", "R", "E", "F", "E", "R", "E",
      "N", "C", "E", "S", " ", "o", "r", "d", "e", "r", "s", "(", "i", "d", ")", " ",
      "O", "N", " ", "D", "E", "L", "E", "T", "E", " ", "C", "A", "S", "C", "A", "D",
      "E", ",", " ", "C", "O", "N", "S", "T", "R", "A", "I", "N", "T", " ", "f", "k",
      "_", "o", "w", "n", "e", "r", " ", "F", "O", "R", "E", "I", "G", "N", " ", "K",
      "E", "Y", " ", "(", "u", "s", "e", "r", "_", "i", "d", ")", " ", "R", "E", "F",
      "E", "R", "E", "N", "C", "E", "S", " ", "u", "s", "e", "r", "s", "(", "i", "d",
      ")", ")">>

Sql_orders ==
    <<"C", "R", "E", "A", "T", "E", " ", "T", "A", "B", "L", "E", " ", "o", "r", "d",
      "e", "r", "s", " ", "(", "i", "d", " ", "I", "N", "T", "E", "G", "E", "R", " ",
      "P", "R", "I", "M", "A", "R", "Y", " ", "K", "E", "Y", ",", " ", "\"", "u", "s",
      "e", "r", "-", "i", "d", "\"", " ", "I", "N", "T", "E", "G", "E", "R", ",", " ",
      "p", "a", "r", "e", "n", "t", "_", "i", "d", " ", "I", "N", "T", "E", "G", "E",
      "R", ",", " ", "C", "O", "N", "S", "T", "R", "A", "I", "N", "T", " ", "f", "k",
      "_", "u", "s", "e", "r", " ", "F", "O", "R", "E", "I", "G", "N", " ", "K", "E",
      "Y", " ", "(", "\"", "u", "s", "e", "r", "-", "i", "d", "\"", ")", " ", "R", "E",
      "F", "E", "R", "E", "N", "C", "E", "S", " ", "u", "s", "e", "r", "s", "(", "i",
      "d", ")", ",", " ", "C", "O", "N", "S", "T", "R", "A", "I", "N", "T", " ", "f",
      "k", "_", "p", "a", "r", "e", "n", "t", " ", "F", "O", "R", "E", "I", "G", "N",
      " ", "K", "E", "Y", " ", "(", "p", "a", "r", "e", "n", "t", "_", "i", "d", ")",
      " ", "R", "E", "F", "E", "R", "E", "N", "C", "E", "S", " ", "o", "r", "d", "e",
      "r", "s", "(", "i", "d", ")", ")">>

Sql_users ==
    <<"C", "R", "E", "A", "T", "E", " ", "T", "A", "B", "L", "E", " ", "u", "s", "e",
      "r", "s", " ", "(", "i", "d", " ", "I", "N", "T", "E", "G", "E", "R", " ", "P",
      "R", "I", "M", "A", "R", "Y", " ", "K", "E", "Y", " ", "A", "U", "T", "O", "I",
      "N", "C", "R", "E", "M", "E", "N", "T", ",", " ", "n", "a", "m", "e", " ", "T",
      "E", "X", "T", " ", "N", "O", "T", " ", "N", "U", "L", "L", ")">>

Sql_links ==
    <<"C", "R", "E", "A", "T", "E", " ", "T", "A", "B", "L", "E", " ", "l", "i", "n",
      "k", "s", " ", "(", "i", "d", " ", "I", "N", "T", "E", "G", "E", "R", " ", "P",
      "R", "I", "M", "A", "R", "Y", " ", "K", "E", "Y", ",", " ", "a", " ", "I", "N",
      "T", "E", "G", "E", "R", ",", " ", "b", " ", "I", "N", "T", "E", "G", "E", "R",
      ",", " ", "C", "O", "N", "S", "T", "R", "A", "I", "N", "T", " ", "f", "k", "_",
      "p", "a", "i", "r", " ", "F", "O", "R", "E", "I", "G", "N", " ", "K", "E", "Y",
      " ", "(", "a", ",", " ", "b", ")", " ", "R", "E", "F", "E", "R", "E", "N", "C",
      "E", "S", " ", "p", "a", "i", "r", "s", "(", "a", ",", " ", "b", ")", ")">>

Name_items ==
    <<"i", "t", "e", "m", "s">>
Name_orders ==
    <<"o", "r", "d", "e", "r", "s">>
Name_users ==
    <<"u", "s", "e", "r", "s">>
Name_links ==
    <<"l", "i", "n", "k", "s">>

Catalog ==
    << [name |-> Name_items, sql |-> Sql_items, refs |-> <<3, 2>>],
       [name |-> Name_orders, sql |-> Sql_orders, refs |-> <<2, 3>>],
       [name |-> Name_users, sql |-> Sql_users, refs |-> <<>>],
       [name |-> Name_links, sql |-> Sql_links, refs |-> <<0, 0>>] >>

\* PRAGMA foreign_key_list of catalog table t in a source of n tables
CatalogRefs(t, n) ==
    [i \in 1..Len(Catalog[t].refs) |->
        IF Catalog[t].refs[i] \in 1..n THEN Catalog[t].refs[i] ELSE Missing]

\* ------------------------------------------------------ create_mysql_schema

\* connection = mysql_conn.connect(), outside the try: a failure leaves
\* create_mysql_schema and migrate_database and is caught by main.
CsConnect ==
    /\ pc = "cs_connect"
    /\ pc' = "sort_enter"
    /\ UNCHANGED <<sortVars, convertVars, otherVars, migrateVars>>

CsConnectRaise ==
    /\ pc = "cs_connect"
    /\ raised' = "connect"
    /\ pc' = "main_except"
    /\ UNCHANGED <<sortVars, convertVars, otherVars, createVars, transferVars, fkVars, validateVars, log>>

\* get_foreign_keys raises (the PRAGMA is rejected, as for a table name holding a
\* quote): the exception leaves sort_tables_by_dependency for the outer handler.
SortGetForeignKeysRaise ==
    /\ pc = "sort_get"
    /\ bt <= Len(tables)
    /\ pc' = "cs_except"
    /\ UNCHANGED <<sortVars, convertVars, otherVars, migrateVars>>

\* tables = sort_tables_by_dependency(tables, sqlite_conn); the loop starts
SortReturn ==
    /\ pc = "sort_return"
    /\ ct' = 1
    /\ pc' = "cs_loop"
    /\ UNCHANGED <<sortVars, convertVars, otherVars, created_tables, failed_tables, all_foreign_keys, executed,
                   rejected, pending, committed, rolled_back, mysql_tables, transferVars,
                   fkVars, validateVars, log>>
    /\ UNCHANGED raised

\* for table_name, create_statement in tables: the translation, and
\* all_foreign_keys[table_name] = foreign_keys; after the last table the commit
\* The mapping left as it is.
NoEntry(mapping, table_name, clauses) == mapping

\* all_foreign_keys[table_name] = foreign_keys, for a table that has no entry yet
SetEntry(mapping, table_name, clauses) == Append(mapping, <<table_name, clauses>>)

CsTranslate ==
    /\ pc = "cs_loop"
    /\ IF ct <= Len(sorted_tables)
         THEN /\ all_foreign_keys' =
                   SetEntry(all_foreign_keys, sorted_tables[ct],
                            convert_create_table_statement(
                                Catalog[sorted_tables[ct]].sql)[2])
              /\ pc' = "cs_execute"
         ELSE /\ pc' = "cs_commit"
              /\ UNCHANGED all_foreign_keys
    /\ UNCHANGED <<sortVars, convertVars, otherVars, created_tables, failed_tables, ct, executed, rejected,
                   pending, committed, rolled_back, mysql_tables, transferVars, fkVars,
                   validateVars, log>>
    /\ UNCHANGED raised

\* The index of the table the loop turns to after a failed one.
AfterFailedStop(i, last) == last + 1

AfterFailed(i, last) == i + 1

\* connection.execute(text(mysql_create_statement)) succeeds
CsExecuteOk ==
    /\ pc = "cs_execute"
    /\ executed' = Append(executed, sorted_tables[ct])
    /\ created_tables' = created_tables \cup {sorted_tables[ct]}
    /\ pending' = pending \cup {<<"create", sorted_tables[ct], 0>>}
    /\ ct' = ct + 1
    /\ pc' = "cs_loop"
    /\ UNCHANGED <<sortVars, convertVars, otherVars, failed_tables, all_foreign_keys, rejected, committed,
                   rolled_back, mysql_tables, transferVars, fkVars, validateVars, log>>
    /\ UNCHANGED raised

\* connection.execute raises: except Exception, failed_tables.add(table_name)
CsExecuteRaise ==
    /\ pc = "cs_execute"
    /\ executed' = Append(executed, sorted_tables[ct])
    /\ rejected' = rejected \cup {sorted_tables[ct]}
    /\ failed_tables' = failed_tables \cup {sorted_tables[ct]}
    /\ ct' = AfterFailed(ct, Len(sorted_tables))
    /\ pc' = "cs_loop"
    /\ UNCHANGED <<sortVars, convertVars, otherVars, created_tables, all_foreign_keys, pending, committed,
                   rolled_back, mysql_tables, transferVars, fkVars, validateVars, log>>
    /\ UNCHANGED raised

\* The tables whose CREATE statement is among a set of statements.
CreatedBy(statements) == {s[2] : s \in {x \in statements : x[1] = "create"}}

\* connection.commit() after the loop; return
CsCommit ==
    /\ pc = "cs_commit"
    /\ committed' = committed \cup pending
    /\ mysql_tables' = mysql_tables \cup CreatedBy(pending)
    /\ pending' = {}
    /\ pc' = "md_report"
    /\ UNCHANGED <<sortVars, convertVars, otherVars, created_tables, failed_tables, all_foreign_keys, ct, executed,
                   rejected, rolled_back, transferVars, fkVars, validateVars, log>>
    /\ UNCHANGED raised

CsCommitRaise ==
    /\ pc = "cs_commit"
    /\ pc' = "cs_except"
    /\ UNCHANGED <<sortVars, convertVars, otherVars, migrateVars>>

\* except Exception: logger.exception; connection.rollback(); return
CsExcept ==
    /\ pc = "cs_except"
    /\ rolled_back' = rolled_back \cup pending
    /\ pending' = {}
    /\ log' = Append(log, "schema_creation_error")
    /\ pc' = "md_report"
    /\ UNCHANGED <<sortVars, convertVars, otherVars, created_tables, failed_tables, all_foreign_keys, ct, executed,
                   rejected, committed, mysql_tables, transferVars, fkVars, validateVars>>
    /\ UNCHANGED raised

\* --------------------------------------------------------- migrate_database

\* The steps of migrate_database: create the tables, transfer the data, add the foreign
\* keys, validate. StepAfter names where control goes when a step is over.
StepAfterConstraintsFirst(step) ==
    CASE step = "create" -> "fk_connect"
      [] step = "constraints" -> "transfer"
      [] step = "transfer" -> "compare_schemas"

StepAfter(step) ==
    CASE step = "create" -> "transfer"
      [] step = "transfer" -> "fk_connect"
      [] step = "constraints" -> "compare_schemas"

\* The tables of both sets, whatever became of their CREATE statement.
CreatedAndFailed(created, failed) == created \cup failed

\* [(table, '') for table in created_tables]: the tables handed to
\* transfer_data_with_pandas and to compare_data
CreatedOnly(created, failed) == created

\* if failed_tables: warning "Failed to create..."; info "Successfully created tables"
MdReport ==
    /\ pc = "md_report"
    /\ log' = log \o (IF failed_tables # {} THEN <<"failed_tables">> ELSE <<>>)
                  \o <<"created_tables">>
    /\ to_transfer' = CreatedOnly(created_tables, failed_tables)
    /\ pc' = StepAfter("create")
    /\ UNCHANGED <<sortVars, convertVars, otherVars, createVars, transferred, fkVars, validateVars>>
    /\ UNCHANGED raised

\* transfer_data_with_pandas: one table of [(table, '') for table in created_tables],
\* a list made from a set. to_sql(if_exists='append') makes the table when the
\* target does not hold it.
TransferTable ==
    /\ pc = "transfer"
    /\ \E table_name \in to_transfer :
          /\ to_transfer' = to_transfer \ {table_name}
          /\ transferred' = transferred \cup {table_name}
          /\ mysql_tables' = mysql_tables \cup {table_name}
    /\ UNCHANGED <<pc, sortVars, convertVars, otherVars, created_tables, failed_tables, all_foreign_keys, ct,
                   executed, rejected, pending, committed, rolled_back, fkVars,
                   validateVars, log>>
    /\ UNCHANGED raised

\* read_sql_query, convert_datetime_format or to_sql raises: nothing catches it
\* before main.
TransferRaise ==
    /\ pc = "transfer"
    /\ to_transfer # {}
    /\ raised' = "transfer"
    /\ pc' = "main_except"
    /\ UNCHANGED <<sortVars, convertVars, otherVars, createVars, transferVars, fkVars, validateVars, log>>

\* logger.info("Finished transferring data.")
TransferDone ==
    /\ pc = "transfer"
    /\ to_transfer = {}
    /\ log' = Append(log, "transfer_finished")
    /\ pc' = StepAfter("transfer")
    /\ UNCHANGED <<sortVars, convertVars, otherVars, createVars, transferVars, fkVars, validateVars>>
    /\ UNCHANGED raised

\* ---------------------------------------------------------- add_foreign_keys

FkConnect ==
    /\ pc = "fk_connect"
    /\ ft' = 1
    /\ fi' = 1
    /\ pc' = "fk_loop"
    /\ UNCHANGED <<sortVars, convertVars, otherVars, createVars, transferVars, fk_log, add_result, validateVars,
                   log>>
    /\ UNCHANGED raised

FkConnectRaise ==
    /\ pc = "fk_connect"
    /\ raised' = "connect"
    /\ pc' = "main_except"
    /\ UNCHANGED <<sortVars, convertVars, otherVars, createVars, transferVars, fkVars, validateVars, log>>

\* The position of the loops after the clause at <<t, i>> was dealt with.
NextClauseStop(t, i) == <<Len(all_foreign_keys) + 1, 1>>

NextClause(t, i) == <<t, i + 1>>

\* for table_name, foreign_keys in foreign_keys_info.items(): for fk in foreign_keys:
\* match = re.match(...); a clause that does not match is logged and the loop goes on
FkMatch ==
    /\ pc = "fk_loop"
    /\ IF ft > Len(all_foreign_keys)
         THEN /\ pc' = "fk_commit"
              /\ UNCHANGED <<ft, fi, fk_log>>
         ELSE IF fi > Len(all_foreign_keys[ft][2])
           THEN /\ ft' = ft + 1
                /\ fi' = 1
                /\ UNCHANGED <<pc, fk_log>>
           ELSE IF ForeignKeyParse(all_foreign_keys[ft][2][fi]).ok
             THEN /\ pc' = "fk_execute"
                  /\ UNCHANGED <<ft, fi, fk_log>>
             ELSE /\ fk_log' = Append(fk_log, <<all_foreign_keys[ft][1], fi, "unparsed">>)
                  /\ ft' = NextClause(ft, fi)[1]
                  /\ fi' = NextClause(ft, fi)[2]
                  /\ UNCHANGED pc
    /\ UNCHANGED <<sortVars, convertVars, otherVars, createVars, transferVars, add_result, validateVars, log>>
    /\ UNCHANGED raised

\* connection.execute(text(fk_sql)) succeeds
FkExecuteOk ==
    /\ pc = "fk_execute"
    /\ fk_log' = Append(fk_log, <<all_foreign_keys[ft][1], fi, "added">>)
    /\ pending' = pending \cup {<<"fk", all_foreign_keys[ft][1], fi>>}
    /\ fi' = fi + 1
    /\ pc' = "fk_loop"
    /\ UNCHANGED <<sortVars, convertVars, otherVars, created_tables, failed_tables, all_foreign_keys, ct, executed,
                   rejected, committed, rolled_back, mysql_tables, transferVars, ft,
                   add_result, validateVars, log>>
    /\ UNCHANGED raised

\* connection.execute raises: logged, continue
FkExecuteRaise ==
    /\ pc = "fk_execute"
    /\ fk_log' = Append(fk_log, <<all_foreign_keys[ft][1], fi, "rejected">>)
    /\ ft' = NextClause(ft, fi)[1]
    /\ fi' = NextClause(ft, fi)[2]
    /\ pc' = "fk_loop"
    /\ UNCHANGED <<sortVars, convertVars, otherVars, createVars, transferVars, add_result, validateVars, log>>
    /\ UNCHANGED raised

\* connection.commit(); return True
FkCommit ==
    /\ pc = "fk_commit"
    /\ committed' = committed \cup pending
    /\ pending' = {}
    /\ add_result' = "True"
    /\ pc' = "md_fk_report"
    /\ UNCHANGED <<sortVars, convertVars, otherVars, created_tables, failed_tables, all_foreign_keys, ct, executed,
                   rejected, rolled_back, mysql_tables, transferVars, ft, fi, fk_log,
                   validateVars, log>>
    /\ UNCHANGED raised

\* connection.commit() raises: except Exception: rollback; return False
FkCommitRaise ==
    /\ pc = "fk_commit"
    /\ rolled_back' = rolled_back \cup pending
    /\ pending' = {}
    /\ add_result' = "False"
    /\ log' = Append(log, "foreign_keys_error")
    /\ pc' = "md_fk_report"
    /\ UNCHANGED <<sortVars, convertVars, otherVars, created_tables, failed_tables, all_foreign_keys, ct, executed,
                   rejected, committed, mysql_tables, transferVars, ft, fi, fk_log,
                   validateVars>>
    /\ UNCHANGED raised

\* if add_foreign_keys(...): info "Successfully added foreign keys for all tables."
\* else: warning "Some issues occurred while adding foreign keys."
MdForeignKeysReport ==
    /\ pc = "md_fk_report"
    /\ log' = Append(log, IF add_result = "True" THEN "fk_success" ELSE "fk_issues")
    /\ pc' = StepAfter("constraints")
    /\ UNCHANGED <<sortVars, convertVars, otherVars, createVars, transferVars, fkVars, validateVars>>
    /\ UNCHANGED raised

\* ------------------------------------------------------------------ validation

\* Any two sets of tables pass.
AnyTables(source, target) == TRUE

\* if sqlite_tables != mysql_tables: ... return False
SameTables(source, target) == source = target

\* compare_schemas: False when the table sets differ; else the columns of each table
\* are compared, which the types of the target decide.
CompareSchemas ==
    /\ pc = "compare_schemas"
    /\ \E columns_match \in BOOLEAN :
          schemas_match' =
              IF SameTables(Range(tables), mysql_tables) /\ columns_match THEN "True" ELSE "False"
    /\ to_compare' = CreatedOnly(created_tables, failed_tables)
    /\ pc' = "compare_data"
    /\ UNCHANGED <<sortVars, convertVars, otherVars, createVars, transferVars, fkVars, compared, data_match, log>>
    /\ UNCHANGED raised

\* mysql_conn.connect() or a query of compare_schemas or compare_data raises
ValidationRaise ==
    /\ pc \in {"compare_schemas", "compare_data"}
    /\ pc = "compare_data" => (schemas_match = "True" /\ to_compare # {})
    /\ raised' = "validation"
    /\ pc' = "main_except"
    /\ UNCHANGED <<sortVars, convertVars, otherVars, createVars, transferVars, fkVars, validateVars, log>>

\* compare_schemas(...) and compare_data(...): compare_data runs when the schemas
\* match; one table of its loop, whose frames are equal or not (return False).
CompareData ==
    /\ pc = "compare_data"
    /\ schemas_match = "True"
    /\ \E table_name \in to_compare, equals \in BOOLEAN :
          /\ compared' = compared \cup {table_name}
          /\ to_compare' = IF equals THEN to_compare \ {table_name} ELSE {}
          /\ data_match' = IF equals THEN data_match ELSE "False"
    /\ UNCHANGED <<pc, sortVars, convertVars, otherVars, createVars, transferVars, fkVars, schemas_match, log>>
    /\ UNCHANGED raised

\* info "Migration successful and validated." or warning "Migration completed, but
\* validation failed."
MdValidated ==
    /\ pc = "compare_data"
    /\ schemas_match = "False" \/ to_compare = {}
    /\ log' = Append(log, IF schemas_match = "True" /\ data_match = "True"
                            THEN "validated" ELSE "validation_failed")
    /\ pc' = "main_finally"
    /\ UNCHANGED <<sortVars, convertVars, otherVars, createVars, transferVars, fkVars, validateVars>>
    /\ UNCHANGED raised

\* ------------------------------------------------------------------------ main

\* except Exception as e: logger.exception("An unexpected error occurred ...")
MainExcept ==
    /\ pc = "main_except"
    /\ log' = Append(log, "unexpected_error")
    /\ pc' = "main_finally"
    /\ UNCHANGED <<sortVars, convertVars, otherVars, createVars, transferVars, fkVars, validateVars>>
    /\ UNCHANGED raised

\* finally: sqlite_conn.close(); info "Migration process completed"
MainFinally ==
    /\ pc = "main_finally"
    /\ log' = Append(log, "completed")
    /\ pc' = "done"
    /\ UNCHANGED <<sortVars, convertVars, otherVars, createVars, transferVars, fkVars, validateVars>>
    /\ UNCHANGED raised

MigrateNext ==
    \/ CsConnect
    \/ CsConnectRaise
    \/ SortNext
    \/ SortGetForeignKeysRaise
    \/ SortReturn
    \/ CsTranslate
    \/ CsExecuteOk
    \/ CsExecuteRaise
    \/ CsCommit
    \/ CsCommitRaise
    \/ CsExcept
    \/ MdReport
    \/ TransferTable
    \/ TransferRaise
    \/ TransferDone
    \/ FkConnect
    \/ FkConnectRaise
    \/ FkMatch
    \/ FkExecuteOk
    \/ FkExecuteRaise
    \/ FkCommit
    \/ FkCommitRaise
    \/ MdForeignKeysReport
    \/ CompareSchemas
    \/ ValidationRaise
    \/ CompareData
    \/ MdValidated
    \/ MainExcept
    \/ MainFinally

\* The state in which no part of the pipeline has run.
MigrateIdle ==
    /\ created_tables = {}
    /\ failed_tables = {}
    /\ all_foreign_keys = <<>>
    /\ ct = 1
    /\ executed = <<>>
    /\ rejected = {}
    /\ pending = {}
    /\ committed = {}
    /\ rolled_back = {}
    /\ mysql_tables = {}
    /\ to_transfer = {}
    /\ transferred = {}
    /\ ft = 1
    /\ fi = 1
    /\ fk_log = <<>>
    /\ add_result = "none"
    /\ schemas_match = "none"
    /\ to_compare = {}
    /\ compared = {}
    /\ data_match = "True"
    /\ log = <<>>
    /\ raised = "none"

ConvertIdle ==
    /\ sqlite_statement = <<>>
    /\ mysql_statement = <<>>
    /\ convert_foreign_keys = <<>>

TypeIdle ==
    /\ declared_type = <<>>
    /\ returned_type = <<>>

SchemaIdle ==
    /\ sqlite_table_set = {}
    /\ mysql_table_set = {}
    /\ differing = {}
    /\ unvisited = {}
    /\ examined = {}
    /\ schema_log = <<>>
    /\ schema_result = "none"

DataIdle ==
    /\ data_tables = <<>>
    /\ sqlite_counts = <<>>
    /\ mysql_counts = <<>>
    /\ equal_frames = <<>>
    /\ dt = 1
    /\ row_compared = {}
    /\ data_log = <<>>
    /\ data_result = "none"

ReconcileIdle ==
    /\ fk_rows = <<>>
    /\ rk = 1
    /\ alter_log = <<>>
    /\ reconcile_raised = "none"
    /\ reconcile_result = "none"

RenderIdle ==
    /\ fk_text = <<>>
    /\ fk_sql = <<>>

RetryIdle ==
    /\ retry_max = 0
    /\ retry_attempts = 0
    /\ retry_events = <<>>
    /\ retry_outcome = <<>>

MainIdle ==
    /\ sqlite_conn = "unbound"
    /\ mysql_conn = "unbound"
    /\ attempts = 0
    /\ main_log = <<>>
    /\ unhandled = "none"

OtherIdle ==
    /\ TypeIdle
    /\ SchemaIdle
    /\ DataIdle
    /\ ReconcileIdle
    /\ RenderIdle
    /\ MainIdle
    /\ RetryIdle

SortIdle ==
    /\ bt = 1
    /\ foreign_keys = <<>>
    /\ dependency_graph = <<>>
    /\ in_degree = <<>>
    /\ sorted_tables = <<>>
    /\ no_dependencies = <<>>
    /\ table = Missing
    /\ dependents = {}
    /\ circular_warning = FALSE

\* migrate_database is entered with both connections; tables = get_sqlite_schema(...)
MigrateInit ==
    /\ pc = "cs_connect"
    /\ \E n \in 1..NumSourceTables :
         /\ tables = [i \in 1..n |-> i]
         /\ sqlite_fks = [t \in 1..n |-> CatalogRefs(t, n)]
    /\ SortIdle
    /\ MigrateIdle
    /\ OtherIdle
    /\ ConvertIdle

SpecMigrate == MigrateInit /\ [][MigrateNext]_vars

\* ------------------------------------------------------ the translator alone
\* convert_create_table_statement statement by statement, on definitions of two
\* columns put together from the parts below.

Str_t ==
    <<"t">>

Col_id_autoincrement ==
    <<"i", "d", " ", "I", "N", "T", "E", "G", "E", "R", " ", "P", "R", "I", "M", "A",
      "R", "Y", " ", "K", "E", "Y", " ", "A", "U", "T", "O", "I", "N", "C", "R", "E",
      "M", "E", "N", "T">>

Col_id_lower ==
    <<"i", "d", " ", "i", "n", "t", "e", "g", "e", "r", " ", "p", "r", "i", "m", "a",
      "r", "y", " ", "k", "e", "y", " ", "a", "u", "t", "o", "i", "n", "c", "r", "e",
      "m", "e", "n", "t">>

Col_id_plain ==
    <<"i", "d", " ", "I", "N", "T", "E", "G", "E", "R", " ", "P", "R", "I", "M", "A",
      "R", "Y", " ", "K", "E", "Y">>

Col_name_not_null ==
    <<"n", "a", "m", "e", " ", "T", "E", "X", "T", " ", "N", "O", "T", " ", "N", "U",
      "L", "L">>

Col_name_lower ==
    <<"n", "a", "m", "e", " ", "t", "e", "x", "t", " ", "n", "o", "t", " ", "n", "u",
      "l", "l">>

Col_price_default ==
    <<"p", "r", "i", "c", "e", " ", "R", "E", "A", "L", " ", "D", "E", "F", "A", "U",
      "L", "T", " ", "0">>

Clause_fk_owner ==
    <<"C", "O", "N", "S", "T", "R", "A", "I", "N", "T", " ", "f", "k", "_", "o", "w",
      "n", "e", "r", " ", "F", "O", "R", "E", "I", "G", "N", " ", "K", "E", "Y", " ",
      "(", "i", "d", ")", " ", "R", "E", "F", "E", "R", "E", "N", "C", "E", "S", " ",
      "u", "s", "e", "r", "s", "(", "i", "d", ")">>

Definition(table_name, first, second, clauses) ==
    Str_CREATE_TABLE \o <<" ">> \o table_name \o <<" ", "(">> \o first \o <<",", " ">>
        \o second \o clauses \o <<")">>

Definitions ==
    {Definition(table_name, first, second, clauses) :
        table_name \in {Str_t, Name_users},
        first \in {Col_id_autoincrement, Col_id_lower, Col_id_plain},
        second \in {Col_name_not_null, Col_name_lower, Col_price_default},
        clauses \in {<<>>, <<",", " ">> \o Clause_fk_owner}}

\* mysql_statement = re.sub(r'CREATE TABLE', 'CREATE TABLE ', sqlite_statement, ...)
CvCreateTable ==
    /\ pc = "cv_create_table"
    /\ mysql_statement' = SubCreateTable(sqlite_statement)
    /\ pc' = "cv_autoincrement"
    /\ UNCHANGED <<sqlite_statement, convert_foreign_keys, sortVars, migrateVars, otherVars>>

\* mysql_statement = re.sub(r'\s*AUTOINCREMENT\s*', ' AUTO_INCREMENT ', ...strip(), ...)
CvAutoIncrement ==
    /\ pc = "cv_autoincrement"
    /\ mysql_statement' = SubAutoIncrement(mysql_statement)
    /\ pc' = "cv_columns"
    /\ UNCHANGED <<sqlite_statement, convert_foreign_keys, sortVars, migrateVars, otherVars>>

\* mysql_statement = re.sub(column pattern, replace_type, mysql_statement, ...)
CvColumns ==
    /\ pc = "cv_columns"
    /\ mysql_statement' = SubColumns(mysql_statement)
    /\ pc' = "cv_primary_key"
    /\ UNCHANGED <<sqlite_statement, convert_foreign_keys, sortVars, migrateVars, otherVars>>

\* mysql_statement = re.sub(r'PRIMARY KEY\s*AUTO_INCREMENT', ...)
CvPrimaryKeyAuto ==
    /\ pc = "cv_primary_key"
    /\ mysql_statement' = SubPrimaryKeyAuto(mysql_statement)
    /\ pc' = "cv_quotes"
    /\ UNCHANGED <<sqlite_statement, convert_foreign_keys, sortVars, migrateVars, otherVars>>

\* mysql_statement = mysql_statement.replace('"', '`')
CvQuotes ==
    /\ pc = "cv_quotes"
    /\ mysql_statement' = ReplaceQuotes(mysql_statement)
    /\ pc' = "cv_findall"
    /\ UNCHANGED <<sqlite_statement, convert_foreign_keys, sortVars, migrateVars, otherVars>>

\* foreign_keys = re.findall(constraint pattern, mysql_statement, ...)
CvFindForeignKeys ==
    /\ pc = "cv_findall"
    /\ convert_foreign_keys' = FindForeignKeys(mysql_statement)
    /\ pc' = "cv_strip"
    /\ UNCHANGED <<sqlite_statement, mysql_statement, sortVars, migrateVars, otherVars>>

\* for fk in foreign_keys: mysql_statement = mysql_statement.replace(f", {fk}", "")
CvStripForeignKeys ==
    /\ pc = "cv_strip"
    /\ mysql_statement' = StripForeignKeys(mysql_statement, convert_foreign_keys)
    /\ pc' = "cv_comma"
    /\ UNCHANGED <<sqlite_statement, convert_foreign_keys, sortVars, migrateVars, otherVars>>

\* mysql_statement = re.sub(r',\s*\)', ')', mysql_statement)
CvCommaParen ==
    /\ pc = "cv_comma"
    /\ mysql_statement' = SubCommaParen(mysql_statement)
    /\ pc' = "cv_backtick"
    /\ UNCHANGED <<sqlite_statement, convert_foreign_keys, sortVars, migrateVars, otherVars>>

\* mysql_statement = re.sub(r'`\(', '` (', mysql_statement)
CvBacktickParen ==
    /\ pc = "cv_backtick"
    /\ mysql_statement' = SubBacktickParen(mysql_statement)
    /\ pc' = "cv_charset"
    /\ UNCHANGED <<sqlite_statement, convert_foreign_keys, sortVars, migrateVars, otherVars>>

\* mysql_statement += ' DEFAULT CHARSET=...'; return mysql_statement.strip(), foreign_keys
CvCharset ==
    /\ pc = "cv_charset"
    /\ mysql_statement' = Strip(mysql_statement \o Str_CHARSET)
    /\ pc' = "cv_return"
    /\ UNCHANGED <<sqlite_statement, convert_foreign_keys, sortVars, migrateVars, otherVars>>

ConvertNext ==
    \/ CvCreateTable
    \/ CvAutoIncrement
    \/ CvColumns
    \/ CvPrimaryKeyAuto
    \/ CvQuotes
    \/ CvFindForeignKeys
    \/ CvStripForeignKeys
    \/ CvCommaParen
    \/ CvBacktickParen
    \/ CvCharset

\* Definitions with a foreign key: a key column, a referencing column, then the
\* foreign key after a separator, then possibly one more column.

Name_dates ==
    <<"d", "a", "t", "e", "s">>

Str_orders_columns ==
    <<"C", "R", "E", "A", "T", "E", " ", "T", "A", "B", "L", "E", " ", "o", "r", "d",
      "e", "r", "s", " ", "(", "i", "d", " ", "I", "N", "T", "E", "G", "E", "R", " ",
      "P", "R", "I", "M", "A", "R", "Y", " ", "K", "E", "Y", ",", " ", "u", "s", "e",
      "r", "_", "i", "d", " ", "I", "N", "T", "E", "G", "E", "R">>

Str_CONSTRAINT_fk_user_SP ==
    <<"C", "O", "N", "S", "T", "R", "A", "I", "N", "T", " ", "f", "k", "_", "u", "s",
      "e", "r", " ">>

Str_FOREIGN_KEY_user_id_REFERENCES_SP ==
    <<"F", "O", "R", "E", "I", "G", "N", " ", "K", "E", "Y", " ", "(", "u", "s", "e",
      "r", "_", "i", "d", ")", " ", "R", "E", "F", "E", "R", "E", "N", "C", "E", "S",
      " ">>

Str_id_in_parens ==
    <<"(", "i", "d", ")">>

Col_note ==
    <<",", " ", "n", "o", "t", "e", " ", "T", "E", "X", "T">>

Sep_comma_space ==
    <<",", " ">>

Sep_comma ==
    <<",">>

Sep_comma_newline ==
    <<",", "\n", " ", " ">>

UnnamedClause(referenced) ==
    Str_FOREIGN_KEY_user_id_REFERENCES_SP \o referenced \o Str_id_in_parens

NamedClause(referenced) == Str_CONSTRAINT_fk_user_SP \o UnnamedClause(referenced)

Keyed(separator, clause, rest) ==
    Str_orders_columns \o separator \o clause \o rest \o <<")">>

Separators == {Sep_comma_space, Sep_comma, Sep_comma_newline}

KeyedDefinitions ==
    {Keyed(separator, clause, rest) :
        separator \in Separators,
        clause \in {NamedClause(Name_users), NamedClause(Name_dates),
                    UnnamedClause(Name_users)},
        rest \in {<<>>, Col_note}}

\* The call convert_create_table_statement(sqlite_statement) on one of the definitions.
ConvertInit ==
    /\ pc = "cv_create_table"
    /\ sqlite_statement \in Definitions \cup KeyedDefinitions
    /\ mysql_statement = <<>>
    /\ convert_foreign_keys = <<>>
    /\ tables = <<>>
    /\ sqlite_fks = <<>>
    /\ SortIdle
    /\ MigrateIdle
    /\ OtherIdle

SpecConvert == ConvertInit /\ [][ConvertNext]_vars

\* ------------------------------------------------------ the resolver alone

\* A foreign key row is coded as one number: table t in 1..n referencing r in 0..n
\* is (t - 1) * (n + 1) + r. The rows of all tables are drawn as one sorted sequence,
\* which fixes the order of the rows of a table (the resolver adds to a set and to a
\* counter, so that order cannot matter) and draws each multiset of rows once.
RowCodes(n) == 0..(n * (n + 1) - 1)
RowTable(code, n) == (code \div (n + 1)) + 1
RowRef(code, n) == code % (n + 1)

FkInputs(n) == {s \in SeqsUpTo(RowCodes(n), MaxFks) : IsSorted(s)}

RefsOf(rows, t, n) ==
    LET mine == SelectSeq(rows, LAMBDA c : RowTable(c, n) = t)
    IN [i \in 1..Len(mine) |-> RowRef(mine[i], n)]

SortInit ==
    /\ pc = "sort_enter"
    /\ \E n \in 1..NumTables :
         /\ tables = [i \in 1..n |-> i]
         /\ \E rows \in FkInputs(n) :
              sqlite_fks = [t \in 1..n |-> RefsOf(rows, t, n)]
    /\ SortIdle
    /\ MigrateIdle
    /\ OtherIdle
    /\ ConvertIdle

SpecSort == SortInit /\ [][SortNext]_vars

\* ---------------------------------------------------- the type mappers alone
\* A type mapper called on a declared type: a type word in one of three letter
\* cases, followed or not by a size.

Size_10 ==
    <<"(", "1", "0", ")">>
Size_10_2 ==
    <<"(", "1", "0", ",", "2", ")">>

Sizes == {<<>>, Size_10, Size_10_2}

LetterCases == {"upper", "lower", "capital"}

Written(word, case) ==
    IF case = "upper" \/ word = <<>> THEN word
    ELSE IF case = "lower" THEN LowerStr(word)
    ELSE <<word[1]>> \o LowerStr(Tail(word))

IntegerTypes == {Str_TINYINT, Str_SMALLINT, Str_INT, Str_INTEGER, Str_BIGINT}

\* The names sqlite_to_mysql_type knows, the other integer types, two types it does
\* not know, and no type at all (a column declared without one).
TypeWords ==
    {ddl_type_mapping[k][1] : k \in 1..Len(ddl_type_mapping)}
        \cup IntegerTypes \cup {Str_VARCHAR, Str_NUMERIC, <<>>}

DeclaredTypes ==
    {Written(word, case) \o size : word \in TypeWords, case \in LetterCases, size \in Sizes}

CallSqliteToMysqlType ==
    /\ pc = "type_call"
    /\ returned_type' = sqlite_to_mysql_type(declared_type)
    /\ pc' = "tm_return"
    /\ UNCHANGED <<declared_type, sortVars, migrateVars, convertVars, schemaVars, dataVars, reconcileVars, renderVars, mainVars, retryVars>>

CallNormalizeType ==
    /\ pc = "type_call"
    /\ returned_type' = normalize_type(declared_type)
    /\ pc' = "nt_return"
    /\ UNCHANGED <<declared_type, sortVars, migrateVars, convertVars, schemaVars, dataVars, reconcileVars, renderVars, mainVars, retryVars>>

TypesNext ==
    \/ CallSqliteToMysqlType
    \/ CallNormalizeType

TypesInit ==
    /\ pc = "type_call"
    /\ declared_type \in DeclaredTypes
    /\ returned_type = <<>>
    /\ tables = <<>>
    /\ sqlite_fks = <<>>
    /\ SortIdle
    /\ MigrateIdle
    /\ ConvertIdle
    /\ SchemaIdle
    /\ DataIdle
    /\ ReconcileIdle
    /\ RenderIdle
    /\ MainIdle
    /\ RetryIdle

SpecTypes == TypesInit /\ [][TypesNext]_vars

\* ---------------------------------------------------- compare_schemas alone
\* The tables of the two sides are sets of table numbers; differing names the tables
\* held by both sides whose sets of (column, normalize_type(type)) pairs differ.

Report(kind, about) == [kind |-> kind, about |-> about]

\* if missing_in_mysql: logger.warning(...)
ReportIfAny(kind, missing) == IF missing = {} THEN <<>> ELSE <<Report(kind, missing)>>

\* if sqlite_tables != mysql_tables: ... return False
SchemasTablesDiffer ==
    /\ pc = "schemas_enter"
    /\ sqlite_table_set # mysql_table_set
    /\ schema_log' = schema_log
           \o <<Report("tables_mismatch", {})>>
           \o ReportIfAny("tables_missing_in_mysql", sqlite_table_set \ mysql_table_set)
           \o ReportIfAny("tables_missing_in_sqlite", mysql_table_set \ sqlite_table_set)
    /\ schema_result' = "False"
    /\ pc' = "schemas_return"
    /\ UNCHANGED <<sqlite_table_set, mysql_table_set, differing, unvisited, examined>>
    /\ UNCHANGED <<sortVars, migrateVars, convertVars, typeVars, dataVars, reconcileVars, renderVars, mainVars, retryVars>>

\* for table in sqlite_tables:
SchemasEnterLoop ==
    /\ pc = "schemas_enter"
    /\ sqlite_table_set = mysql_table_set
    /\ unvisited' = sqlite_table_set
    /\ pc' = "schemas_loop"
    /\ UNCHANGED <<sqlite_table_set, mysql_table_set, differing, examined, schema_log,
                   schema_result>>
    /\ UNCHANGED <<sortVars, migrateVars, convertVars, typeVars, dataVars, reconcileVars, renderVars, mainVars, retryVars>>

\* One turn of the loop on a table whose column sets are equal. A set is iterated in
\* an order the program does not choose.
SchemasColumnsMatch ==
    /\ pc = "schemas_loop"
    /\ \E t \in unvisited :
         /\ t \notin differing
         /\ unvisited' = unvisited \ {t}
         /\ examined' = examined \cup {t}
    /\ UNCHANGED <<pc, sqlite_table_set, mysql_table_set, differing, schema_log,
                   schema_result>>
    /\ UNCHANGED <<sortVars, migrateVars, convertVars, typeVars, dataVars, reconcileVars, renderVars, mainVars, retryVars>>

\* if sqlite_columns != mysql_columns: ... return False
SchemasColumnsDiffer ==
    /\ pc = "schemas_loop"
    /\ \E t \in unvisited :
         /\ t \in differing
         /\ unvisited' = unvisited \ {t}
         /\ examined' = examined \cup {t}
         /\ schema_log' = schema_log \o <<Report("columns_mismatch", {t})>>
    /\ schema_result' = "False"
    /\ pc' = "schemas_return"
    /\ UNCHANGED <<sqlite_table_set, mysql_table_set, differing>>
    /\ UNCHANGED <<sortVars, migrateVars, convertVars, typeVars, dataVars, reconcileVars, renderVars, mainVars, retryVars>>

\* logger.info("Schemas match."); return True
SchemasMatch ==
    /\ pc = "schemas_loop"
    /\ unvisited = {}
    /\ schema_log' = schema_log \o <<Report("schemas_match", {})>>
    /\ schema_result' = "True"
    /\ pc' = "schemas_return"
    /\ UNCHANGED <<sqlite_table_set, mysql_table_set, differing, unvisited, examined>>
    /\ UNCHANGED <<sortVars, migrateVars, convertVars, typeVars, dataVars, reconcileVars, renderVars, mainVars, retryVars>>

SchemasNext ==
    \/ SchemasTablesDiffer
    \/ SchemasEnterLoop
    \/ SchemasColumnsMatch
    \/ SchemasColumnsDiffer
    \/ SchemasMatch

SchemasInit ==
    /\ pc = "schemas_enter"
    /\ sqlite_table_set \in SUBSET (1..NumSchemaTables)
    /\ mysql_table_set \in SUBSET (1..NumSchemaTables)
    /\ differing \in SUBSET (sqlite_table_set \cap mysql_table_set)
    /\ unvisited = {}
    /\ examined = {}
    /\ schema_log = <<>>
    /\ schema_result = "none"
    /\ tables = <<>>
    /\ sqlite_fks = <<>>
    /\ SortIdle
    /\ MigrateIdle
    /\ ConvertIdle
    /\ TypeIdle
    /\ DataIdle
    /\ ReconcileIdle
    /\ RenderIdle
    /\ MainIdle
    /\ RetryIdle

SpecSchemas == SchemasInit /\ [][SchemasNext]_vars

\* ------------------------------------------------------- compare_data alone
\* Per table the two frames are known by their numbers of rows and by whether
\* sqlite_df.equals(mysql_df) holds; frames of different lengths are not equal.

DataReport(kind, table_name, sqlite_count, mysql_count) ==
    [kind |-> kind, table_name |-> table_name, sqlite_count |-> sqlite_count,
     mysql_count |-> mysql_count]

\* No count is part of the message.
NoCount == -1

\* The row counts are the same on both sides, whatever the table.
CountsAgree(table_name) == FALSE

\* sqlite_count != mysql_count
CountsDiffer(table_name) == sqlite_counts[table_name] # mysql_counts[table_name]

\* The messages logged for a table whose frames are not equal, up to the branch.
MismatchReports(table_name) ==
    <<DataReport("data_mismatch", table_name, NoCount, NoCount),
      DataReport("row_count", table_name, sqlite_counts[table_name],
                 mysql_counts[table_name])>>

\* if not sqlite_df.equals(mysql_df): is false, the loop goes on
DataEqual ==
    /\ pc = "data_loop"
    /\ dt <= Len(data_tables)
    /\ equal_frames[data_tables[dt]]
    /\ dt' = dt + 1
    /\ UNCHANGED <<pc, data_tables, sqlite_counts, mysql_counts, equal_frames,
                   row_compared, data_log, data_result>>
    /\ UNCHANGED <<sortVars, migrateVars, convertVars, typeVars, schemaVars, reconcileVars, renderVars, mainVars, retryVars>>

\* if sqlite_count != mysql_count: logger.warning("Row count mismatch ..."); return False
DataCountMismatch ==
    /\ pc = "data_loop"
    /\ dt <= Len(data_tables)
    /\ ~equal_frames[data_tables[dt]]
    /\ CountsDiffer(data_tables[dt])
    /\ data_log' = data_log \o MismatchReports(data_tables[dt])
           \o <<DataReport("row_count_mismatch", data_tables[dt], NoCount, NoCount)>>
    /\ data_result' = "False"
    /\ pc' = "data_return"
    /\ UNCHANGED <<data_tables, sqlite_counts, mysql_counts, equal_frames, dt,
                   row_compared>>
    /\ UNCHANGED <<sortVars, migrateVars, convertVars, typeVars, schemaVars, reconcileVars, renderVars, mainVars, retryVars>>

\* else: mismatched_rows = sqlite_df.compare(mysql_df); ... return False
DataRowMismatch ==
    /\ pc = "data_loop"
    /\ dt <= Len(data_tables)
    /\ ~equal_frames[data_tables[dt]]
    /\ ~CountsDiffer(data_tables[dt])
    /\ row_compared' = row_compared \cup {data_tables[dt]}
    /\ data_log' = data_log \o MismatchReports(data_tables[dt])
           \o <<DataReport("mismatched_rows", data_tables[dt], NoCount, NoCount)>>
    /\ data_result' = "False"
    /\ pc' = "data_return"
    /\ UNCHANGED <<data_tables, sqlite_counts, mysql_counts, equal_frames, dt>>
    /\ UNCHANGED <<sortVars, migrateVars, convertVars, typeVars, schemaVars, reconcileVars, renderVars, mainVars, retryVars>>

\* DataFrame.compare raises ValueError on frames that are not labelled alike; nothing
\* in compare_data catches it.
DataCompareRaise ==
    /\ pc = "data_loop"
    /\ dt <= Len(data_tables)
    /\ ~equal_frames[data_tables[dt]]
    /\ ~CountsDiffer(data_tables[dt])
    /\ row_compared' = row_compared \cup {data_tables[dt]}
    /\ data_log' = data_log \o MismatchReports(data_tables[dt])
    /\ data_result' = "raised"
    /\ pc' = "data_return"
    /\ UNCHANGED <<data_tables, sqlite_counts, mysql_counts, equal_frames, dt>>
    /\ UNCHANGED <<sortVars, migrateVars, convertVars, typeVars, schemaVars, reconcileVars, renderVars, mainVars, retryVars>>

\* logger.info("Data matches for all tables."); return True
DataMatch ==
    /\ pc = "data_loop"
    /\ dt > Len(data_tables)
    /\ data_log' = data_log \o <<DataReport("data_matches", Missing, NoCount, NoCount)>>
    /\ data_result' = "True"
    /\ pc' = "data_return"
    /\ UNCHANGED <<data_tables, sqlite_counts, mysql_counts, equal_frames, dt,
                   row_compared>>
    /\ UNCHANGED <<sortVars, migrateVars, convertVars, typeVars, schemaVars, reconcileVars, renderVars, mainVars, retryVars>>

DataNext ==
    \/ DataEqual
    \/ DataCountMismatch
    \/ DataRowMismatch
    \/ DataCompareRaise
    \/ DataMatch

DataInit ==
    /\ pc = "data_loop"
    /\ \E n \in 1..NumDataTables :
         /\ data_tables = [i \in 1..n |-> i]
         /\ sqlite_counts \in [1..n -> 0..MaxRows]
         /\ mysql_counts \in [1..n -> 0..MaxRows]
         /\ equal_frames \in [1..n -> BOOLEAN]
         /\ \A t \in 1..n : equal_frames[t] => sqlite_counts[t] = mysql_counts[t]
    /\ dt = 1
    /\ row_compared = {}
    /\ data_log = <<>>
    /\ data_result = "none"
    /\ tables = <<>>
    /\ sqlite_fks = <<>>
    /\ SortIdle
    /\ MigrateIdle
    /\ ConvertIdle
    /\ TypeIdle
    /\ SchemaIdle
    /\ ReconcileIdle
    /\ RenderIdle
    /\ MainIdle
    /\ RetryIdle

SpecData == DataInit /\ [][DataNext]_vars

\* ------------------------------------- update_foreign_key_column_types alone
\* The foreign key columns of foreign_keys_info in the order of the two loops. Each
\* is known by the type the column has in the target and by the row PRAGMA table_info
\* gives for the referenced column: <<>> when the source has no such column (next(...,
\* None)), else <<its declared type>>.

FkColumnTypes == {Str_BIGINT, Str_TEXT}

RefColumnInfos == {<<>>, <<Str_INTEGER>>, <<Str_TEXT>>}

FkRow(fk_column_type, ref_column_info) ==
    [fk_column_type |-> fk_column_type, ref_column_info |-> ref_column_info]

FkRows == {FkRow(fk_column_type, ref_column_info) :
              fk_column_type \in FkColumnTypes, ref_column_info \in RefColumnInfos}

\* else: logger.warning("Could not find referenced column type ...")
ReconcileNotFound ==
    /\ pc = "reconcile_loop"
    /\ rk <= Len(fk_rows)
    /\ fk_rows[rk].ref_column_info = <<>>
    /\ alter_log' = Append(alter_log, <<rk, "not_found">>)
    /\ rk' = rk + 1
    /\ UNCHANGED <<pc, fk_rows, reconcile_raised, reconcile_result>>
    /\ UNCHANGED <<sortVars, migrateVars, convertVars, typeVars, schemaVars, dataVars, renderVars, mainVars, retryVars>>

\* if ref_column_info: ... mysql_connection.execute(text(alter_fk_column_sql)) returns
ReconcileAlterOk ==
    /\ pc = "reconcile_loop"
    /\ rk <= Len(fk_rows)
    /\ fk_rows[rk].ref_column_info # <<>>
    /\ alter_log' = Append(alter_log, <<rk, "modified">>)
    /\ rk' = rk + 1
    /\ UNCHANGED <<pc, fk_rows, reconcile_raised, reconcile_result>>
    /\ UNCHANGED <<sortVars, migrateVars, convertVars, typeVars, schemaVars, dataVars, renderVars, mainVars, retryVars>>

\* The target rejects the statement: except Exception ... return False
ReconcileAlterRaise ==
    /\ pc = "reconcile_loop"
    /\ rk <= Len(fk_rows)
    /\ fk_rows[rk].ref_column_info # <<>>
    /\ alter_log' = Append(alter_log, <<rk, "error">>)
    /\ reconcile_raised' = "alter"
    /\ reconcile_result' = "False"
    /\ pc' = "reconcile_return"
    /\ UNCHANGED <<fk_rows, rk>>
    /\ UNCHANGED <<sortVars, migrateVars, convertVars, typeVars, schemaVars, dataVars, renderVars, mainVars, retryVars>>

\* PRAGMA table_info raises: the outer handler rolls back and returns False
ReconcilePragmaRaise ==
    /\ pc = "reconcile_loop"
    /\ rk <= Len(fk_rows)
    /\ reconcile_raised' = "pragma"
    /\ reconcile_result' = "False"
    /\ pc' = "reconcile_return"
    /\ UNCHANGED <<fk_rows, rk, alter_log>>
    /\ UNCHANGED <<sortVars, migrateVars, convertVars, typeVars, schemaVars, dataVars, renderVars, mainVars, retryVars>>

\* mysql_connection.commit(); return True
ReconcileCommit ==
    /\ pc = "reconcile_loop"
    /\ rk > Len(fk_rows)
    /\ reconcile_result' = "True"
    /\ pc' = "reconcile_return"
    /\ UNCHANGED <<fk_rows, rk, alter_log, reconcile_raised>>
    /\ UNCHANGED <<sortVars, migrateVars, convertVars, typeVars, schemaVars, dataVars, renderVars, mainVars, retryVars>>

\* mysql_connection.commit() raises: the outer handler rolls back and returns False
ReconcileCommitRaise ==
    /\ pc = "reconcile_loop"
    /\ rk > Len(fk_rows)
    /\ reconcile_raised' = "commit"
    /\ reconcile_result' = "False"
    /\ pc' = "reconcile_return"
    /\ UNCHANGED <<fk_rows, rk, alter_log>>
    /\ UNCHANGED <<sortVars, migrateVars, convertVars, typeVars, schemaVars, dataVars, renderVars, mainVars, retryVars>>

ReconcileNext ==
    \/ ReconcileNotFound
    \/ ReconcileAlterOk
    \/ ReconcileAlterRaise
    \/ ReconcilePragmaRaise
    \/ ReconcileCommit
    \/ ReconcileCommitRaise

ReconcileInit ==
    /\ pc = "reconcile_loop"
    /\ \E n \in 1..MaxFkColumns : fk_rows \in [1..n -> FkRows]
    /\ rk = 1
    /\ alter_log = <<>>
    /\ reconcile_raised = "none"
    /\ reconcile_result = "none"
    /\ tables = <<>>
    /\ sqlite_fks = <<>>
    /\ SortIdle
    /\ MigrateIdle
    /\ ConvertIdle
    /\ TypeIdle
    /\ SchemaIdle
    /\ DataIdle
    /\ RenderIdle
    /\ MainIdle
    /\ RetryIdle

SpecReconcile == ReconcileInit /\ [][ReconcileNext]_vars

\* ------------------------------------------- add_foreign_keys on one clause
\* One turn of the loops of add_foreign_keys on a clause of the table orders: a named
\* foreign key, followed or not by ON DELETE and ON UPDATE actions and by the
\* parenthesis convert_create_table_statement leaves at the end of a clause.

Str_fk_user ==
    <<"f", "k", "_", "u", "s", "e", "r">>
Str_user_id ==
    <<"u", "s", "e", "r", "_", "i", "d">>
Str_id ==
    <<"i", "d">>
Clause_fk_user ==
    <<"C", "O", "N", "S", "T", "R", "A", "I", "N", "T", " ", "f", "k", "_", "u", "s",
      "e", "r", " ", "F", "O", "R", "E", "I", "G", "N", " ", "K", "E", "Y", " ", "(",
      "u", "s", "e", "r", "_", "i", "d", ")", " ", "R", "E", "F", "E", "R", "E", "N",
      "C", "E", "S", " ", "u", "s", "e", "r", "s", " ", "(", "i", "d", ")">>
Str_CASCADE ==
    <<"C", "A", "S", "C", "A", "D", "E">>
Str_SET_NULL ==
    <<"S", "E", "T", " ", "N", "U", "L", "L">>
Str_NO_ACTION ==
    <<"N", "O", " ", "A", "C", "T", "I", "O", "N">>
Str_SP_ON_DELETE_SP ==
    <<" ", "O", "N", " ", "D", "E", "L", "E", "T", "E", " ">>
Str_SP_ON_UPDATE_SP ==
    <<" ", "O", "N", " ", "U", "P", "D", "A", "T", "E", " ">>

ReferentialActions == {Str_CASCADE, Str_RESTRICT, Str_SET_NULL, Str_NO_ACTION}

\* ON DELETE on_delete, or nothing when on_delete is empty
OnDelete(on_delete) ==
    IF on_delete = <<>> THEN <<>> ELSE Str_SP_ON_DELETE_SP \o on_delete

OnUpdate(on_update) ==
    IF on_update = <<>> THEN <<>> ELSE Str_SP_ON_UPDATE_SP \o on_update

ClauseWith(on_delete, on_update, tail) ==
    Clause_fk_user \o OnDelete(on_delete) \o OnUpdate(on_update) \o tail

ClauseInputs ==
    {ClauseWith(on_delete, on_update, tail) :
        on_delete \in ReferentialActions \cup {<<>>},
        on_update \in ReferentialActions \cup {<<>>},
        tail \in {<<>>, <<")">>}}
      \cup {UnnamedClause(Name_users)}

\* match = re.match(...); if match: ... fk_sql = f"""..."""
RenderMatch ==
    /\ pc = "render_match"
    /\ ForeignKeyParse(fk_text).ok
    /\ fk_sql' = FkSql(Name_orders, ForeignKeyParse(fk_text))
    /\ pc' = "render_execute"
    /\ UNCHANGED <<fk_text, sortVars, migrateVars, convertVars, typeVars, schemaVars,
                   dataVars, reconcileVars, mainVars, retryVars>>

\* else: logger.warning("Could not parse foreign key constraint: %s", fk)
RenderUnparsed ==
    /\ pc = "render_match"
    /\ ~ForeignKeyParse(fk_text).ok
    /\ pc' = "render_unparsed"
    /\ UNCHANGED <<fk_text, fk_sql, sortVars, migrateVars, convertVars, typeVars,
                   schemaVars, dataVars, reconcileVars, mainVars, retryVars>>

\* connection.execute(text(fk_sql)) returns
RenderExecuteOk ==
    /\ pc = "render_execute"
    /\ pc' = "render_added"
    /\ UNCHANGED <<fk_text, fk_sql, sortVars, migrateVars, convertVars, typeVars,
                   schemaVars, dataVars, reconcileVars, mainVars, retryVars>>

\* connection.execute(text(fk_sql)) raises: the error and the statement are logged
RenderExecuteRaise ==
    /\ pc = "render_execute"
    /\ pc' = "render_rejected"
    /\ UNCHANGED <<fk_text, fk_sql, sortVars, migrateVars, convertVars, typeVars,
                   schemaVars, dataVars, reconcileVars, mainVars, retryVars>>

RenderNext ==
    \/ RenderMatch
    \/ RenderUnparsed
    \/ RenderExecuteOk
    \/ RenderExecuteRaise

RenderInit ==
    /\ pc = "render_match"
    /\ fk_text \in ClauseInputs
    /\ fk_sql = <<>>
    /\ tables = <<>>
    /\ sqlite_fks = <<>>
    /\ SortIdle
    /\ MigrateIdle
    /\ ConvertIdle
    /\ TypeIdle
    /\ SchemaIdle
    /\ DataIdle
    /\ ReconcileIdle
    /\ MainIdle
    /\ RetryIdle

SpecRender == RenderInit /\ [][RenderNext]_vars

\* -------------------------------------------------------------- main alone
\* main from its first line to its last, with connect_sqlite and its retry wrapper,
\* connect_mysql, and migrate_database at the level of the calls it makes (the
\* pipeline above follows those calls statement by statement).

\* @retry(max_attempts=3, delay=2)
max_attempts == 3

notMainVars ==
    <<sortVars, migrateVars, convertVars, typeVars, schemaVars, dataVars, reconcileVars,
      renderVars, retryVars>>

\* if sqlite_conn and mysql_conn:
BothConnected == sqlite_conn = "connection" /\ mysql_conn = "engine"

\* logger.info("Starting database migration process")
MainStart ==
    /\ pc = "main_start"
    /\ main_log' = Append(main_log, "starting")
    /\ pc' = "main_connect_sqlite"
    /\ UNCHANGED <<sqlite_conn, mysql_conn, attempts, unhandled, notMainVars>>

\* sqlite_conn = connect_sqlite(SQLITE_DB): return sqlite3.connect(db_file)
ConnectSqliteReturns ==
    /\ pc = "main_connect_sqlite"
    /\ sqlite_conn' = "connection"
    /\ pc' = "main_connect_mysql"
    /\ UNCHANGED <<mysql_conn, attempts, main_log, unhandled, notMainVars>>

\* except sqlite3.Error as e: logger.error(...); return None
ConnectSqliteError ==
    /\ pc = "main_connect_sqlite"
    /\ main_log' = Append(main_log, "sqlite_error")
    /\ sqlite_conn' = "None"
    /\ pc' = "main_connect_mysql"
    /\ UNCHANGED <<mysql_conn, attempts, unhandled, notMainVars>>

\* sqlite3.connect raises an exception that is no sqlite3.Error: the wrapper counts
\* the attempt, logs it, sleeps and calls again
ConnectSqliteRetry ==
    /\ pc = "main_connect_sqlite"
    /\ attempts + 1 < max_attempts
    /\ attempts' = attempts + 1
    /\ main_log' = Append(main_log, "attempt_failed")
    /\ UNCHANGED <<pc, sqlite_conn, mysql_conn, unhandled, notMainVars>>

\* if attempts == max_attempts: logger.error("All %d attempts failed."); raise: the
\* assignment to sqlite_conn does not happen and main's handler is entered
ConnectSqliteGiveUp ==
    /\ pc = "main_connect_sqlite"
    /\ attempts + 1 = max_attempts
    /\ attempts' = attempts + 1
    /\ main_log' = main_log \o <<"attempt_failed", "all_attempts_failed">>
    /\ pc' = "main_handler"
    /\ UNCHANGED <<sqlite_conn, mysql_conn, unhandled, notMainVars>>

\* mysql_conn = connect_mysql(...): return engine
ConnectMysqlReturns ==
    /\ pc = "main_connect_mysql"
    /\ mysql_conn' = "engine"
    /\ pc' = "main_if"
    /\ UNCHANGED <<sqlite_conn, attempts, main_log, unhandled, notMainVars>>

\* except Exception as e: logger.error(...); return None
ConnectMysqlError ==
    /\ pc = "main_connect_mysql"
    /\ main_log' = Append(main_log, "mysql_error")
    /\ mysql_conn' = "None"
    /\ pc' = "main_if"
    /\ UNCHANGED <<sqlite_conn, attempts, unhandled, notMainVars>>

\* else: logger.error("Failed to connect to one or both databases.")
MainNotConnected ==
    /\ pc = "main_if"
    /\ ~BothConnected
    /\ main_log' = Append(main_log, "connect_failed")
    /\ pc' = "main_close"
    /\ UNCHANGED <<sqlite_conn, mysql_conn, attempts, unhandled, notMainVars>>

\* migrate_database: get_sqlite_schema, create_mysql_schema and the two reports
MainCreateSchema ==
    /\ pc = "main_if"
    /\ BothConnected
    /\ \E failed \in BOOLEAN :
         main_log' = main_log
             \o (IF failed THEN <<"failed_tables">> ELSE <<>>) \o <<"created_tables">>
    /\ pc' = "main_transfer"
    /\ UNCHANGED <<sqlite_conn, mysql_conn, attempts, unhandled, notMainVars>>

\* transfer_data_with_pandas(...); logger.info("Finished transferring data.")
MainTransfer ==
    /\ pc = "main_transfer"
    /\ main_log' = Append(main_log, "transferred")
    /\ pc' = "main_add_foreign_keys"
    /\ UNCHANGED <<sqlite_conn, mysql_conn, attempts, unhandled, notMainVars>>

\* if add_foreign_keys(mysql_conn, foreign_keys_info): ... else: ...
MainAddForeignKeys ==
    /\ pc = "main_add_foreign_keys"
    /\ \E added \in BOOLEAN :
         main_log' = Append(main_log, IF added THEN "foreign_keys_added"
                                               ELSE "foreign_keys_issues")
    /\ pc' = "main_validate"
    /\ UNCHANGED <<sqlite_conn, mysql_conn, attempts, unhandled, notMainVars>>

\* if compare_schemas(...) and compare_data(...): ... else: ...
MainValidate ==
    /\ pc = "main_validate"
    /\ \E valid \in BOOLEAN :
         main_log' = Append(main_log, IF valid THEN "validated" ELSE "validation_failed")
    /\ pc' = "main_close"
    /\ UNCHANGED <<sqlite_conn, mysql_conn, attempts, unhandled, notMainVars>>

\* A call of migrate_database raises; nothing in migrate_database catches it.
MainMigrateRaise ==
    /\ \/ pc = "main_if" /\ BothConnected
       \/ pc \in {"main_transfer", "main_add_foreign_keys", "main_validate"}
    /\ pc' = "main_handler"
    /\ UNCHANGED <<mainVars, notMainVars>>

\* except Exception as e: logger.exception("An unexpected error occurred ...")
MainHandler ==
    /\ pc = "main_handler"
    /\ main_log' = Append(main_log, "unexpected_error")
    /\ pc' = "main_close"
    /\ UNCHANGED <<sqlite_conn, mysql_conn, attempts, unhandled, notMainVars>>

\* finally: sqlite_conn.close(); then logger.info("Migration process completed")
MainClose ==
    /\ pc = "main_close"
    /\ sqlite_conn = "connection"
    /\ sqlite_conn' = "closed"
    /\ main_log' = Append(main_log, "completed")
    /\ pc' = "main_returned"
    /\ UNCHANGED <<mysql_conn, attempts, unhandled, notMainVars>>

\* finally: sqlite_conn.close() on None: AttributeError, which nothing catches
MainCloseNone ==
    /\ pc = "main_close"
    /\ sqlite_conn = "None"
    /\ unhandled' = "AttributeError"
    /\ pc' = "main_unhandled"
    /\ UNCHANGED <<sqlite_conn, mysql_conn, attempts, main_log, notMainVars>>

\* finally: sqlite_conn.close() on a name never assigned: UnboundLocalError, which
\* nothing catches
MainCloseUnbound ==
    /\ pc = "main_close"
    /\ sqlite_conn = "unbound"
    /\ unhandled' = "UnboundLocalError"
    /\ pc' = "main_unhandled"
    /\ UNCHANGED <<sqlite_conn, mysql_conn, attempts, main_log, notMainVars>>

MainNext ==
    \/ MainStart
    \/ ConnectSqliteReturns
    \/ ConnectSqliteError
    \/ ConnectSqliteRetry
    \/ ConnectSqliteGiveUp
    \/ ConnectMysqlReturns
    \/ ConnectMysqlError
    \/ MainNotConnected
    \/ MainCreateSchema
    \/ MainTransfer
    \/ MainAddForeignKeys
    \/ MainValidate
    \/ MainMigrateRaise
    \/ MainHandler
    \/ MainClose
    \/ MainCloseNone
    \/ MainCloseUnbound

MainInit ==
    /\ pc = "main_start"
    /\ MainIdle
    /\ RetryIdle
    /\ tables = <<>>
    /\ sqlite_fks = <<>>
    /\ SortIdle
    /\ MigrateIdle
    /\ ConvertIdle
    /\ TypeIdle
    /\ SchemaIdle
    /\ DataIdle
    /\ ReconcileIdle
    /\ RenderIdle

SpecMain == MainInit /\ [][MainNext]_vars

\* ------------------------------------------------------------- retry alone
\* The wrapper retry(max_attempts, delay) makes around a function, called once. Each
\* call of the function returns one of two values or raises one of two exceptions.

MaxAttempts == 4

FuncResults == {"connection", "None"}

FuncExceptions == {"TypeError", "ValueError"}

\* The condition is never met.
NeverGivesUp(attempts_made, limit) == FALSE

\* if attempts == max_attempts:
GivesUp(attempts_made, limit) == attempts_made = limit

\* try: return func(*args, **kwargs)
RetryCallReturns ==
    /\ pc = "retry_while"
    /\ retry_attempts < retry_max
    /\ \E value \in FuncResults :
         /\ retry_events' = Append(retry_events, value)
         /\ retry_outcome' = <<"returned", value>>
    /\ pc' = "retry_return"
    /\ UNCHANGED <<retry_max, retry_attempts>>
    /\ UNCHANGED <<sortVars, migrateVars, convertVars, typeVars, schemaVars, dataVars, reconcileVars, renderVars, mainVars>>

\* except Exception as e: attempts += 1; logger.warning(...); time.sleep(delay)
RetryCallRaisesSleep ==
    /\ pc = "retry_while"
    /\ retry_attempts < retry_max
    /\ ~GivesUp(retry_attempts + 1, retry_max)
    /\ \E e \in FuncExceptions :
         retry_events' = retry_events \o <<e, "sleep">>
    /\ retry_attempts' = retry_attempts + 1
    /\ UNCHANGED <<pc, retry_max, retry_outcome>>
    /\ UNCHANGED <<sortVars, migrateVars, convertVars, typeVars, schemaVars, dataVars, reconcileVars, renderVars, mainVars>>

\* except Exception as e: attempts += 1; ... logger.error("All %d attempts failed.");
\* raise
RetryCallRaisesGiveUp ==
    /\ pc = "retry_while"
    /\ retry_attempts < retry_max
    /\ GivesUp(retry_attempts + 1, retry_max)
    /\ \E e \in FuncExceptions :
         /\ retry_events' = Append(retry_events, e)
         /\ retry_outcome' = <<"raised", e>>
    /\ retry_attempts' = retry_attempts + 1
    /\ pc' = "retry_raise"
    /\ UNCHANGED retry_max
    /\ UNCHANGED <<sortVars, migrateVars, convertVars, typeVars, schemaVars, dataVars, reconcileVars, renderVars, mainVars>>

\* while attempts < max_attempts: is false: the wrapper ends and returns None
RetryLoopEnds ==
    /\ pc = "retry_while"
    /\ ~(retry_attempts < retry_max)
    /\ retry_outcome' = <<"returned", "None">>
    /\ pc' = "retry_return"
    /\ UNCHANGED <<retry_max, retry_attempts, retry_events>>
    /\ UNCHANGED <<sortVars, migrateVars, convertVars, typeVars, schemaVars, dataVars, reconcileVars, renderVars, mainVars>>

RetryNext ==
    \/ RetryCallReturns
    \/ RetryCallRaisesSleep
    \/ RetryCallRaisesGiveUp
    \/ RetryLoopEnds

RetryInit ==
    /\ pc = "retry_while"
    /\ retry_max \in 0..MaxAttempts
    /\ retry_attempts = 0
    /\ retry_events = <<>>
    /\ retry_outcome = <<>>
    /\ tables = <<>>
    /\ sqlite_fks = <<>>
    /\ SortIdle
    /\ MigrateIdle
    /\ ConvertIdle
    /\ TypeIdle
    /\ SchemaIdle
    /\ DataIdle
    /\ ReconcileIdle
    /\ RenderIdle
    /\ MainIdle

SpecRetry == RetryInit /\ [][RetryNext]_vars

\* --------------------------------------------- properties of the resolver

\* The foreign keys of the source as pairs <<referenced table, dependent table>>,
\* self-references left out.
References ==
    {<<sqlite_fks[t][i], t>> : <<t, i>> \in
        {<<t, i>> \in Range(tables) \X (1..(MaxFks + 1)) :
            i <= Len(sqlite_fks[t]) /\ sqlite_fks[t][i] # t}}

\* Those among them whose referenced table is one of the tables.
InnerReferences == {e \in References : e[1] \in Range(tables)}

\* x stands before y in s: both occur, and every x before every y.
Precedes(s, x, y) ==
    /\ x \in Range(s)
    /\ y \in Range(s)
    /\ \A i, j \in 1..Len(s) : (s[i] = x /\ s[j] = y) => i < j

\* The reference graph has no cycle: some order of the tables respects every edge.
Acyclic == \E ord \in Orders(Range(tables)) :
              \A e \in InnerReferences : Precedes(ord, e[1], e[2])

ExactlyOnce(s, S) == Len(s) = Cardinality(S) /\ Range(s) = S

\* C1: for an acyclic reference graph (stated here for foreign keys that all
\* reference a table of the set), the returned order places every referenced
\* table strictly before every table that references it.
C1_ReferencedFirst ==
    (pc = "sort_return" /\ Acyclic /\ References = InnerReferences)
        => \A e \in InnerReferences : Precedes(sorted_tables, e[1], e[2])

\* C2: for a table set whose foreign keys form a cycle, the result holds every
\* table exactly once and the circular-dependency warning was emitted.
C2_CycleKeepsAllTables ==
    (pc = "sort_return" /\ ~Acyclic)
        => (ExactlyOnce(sorted_tables, Range(tables)) /\ circular_warning)

\* A run that returned on two tables referencing each other, one more table having
\* gone through the Kahn pass.
C2_Witness ==
    /\ pc = "sort_return"
    /\ ~Acyclic
    /\ \E a, b \in Range(tables) :
          a # b /\ <<a, b>> \in InnerReferences /\ <<b, a>> \in InnerReferences
    /\ Len(tables) = 3
    /\ table # Missing

\* The table holds foreign keys and each of them references the table itself.
SelfOnly(t) ==
    /\ sqlite_fks[t] # <<>>
    /\ \A i \in 1..Len(sqlite_fks[t]) : sqlite_fks[t][i] = t

\* C20: a table whose only foreign keys reference the table itself is the dependent
\* of no edge of the dependency graph and its in-degree is 0 throughout; when no
\* table references another one, the circular-dependency warning is not logged.
C20_SelfReferenceNoEdge ==
    /\ \A t \in Range(tables) :
          SelfOnly(t)
              => /\ t \in DOMAIN in_degree => in_degree[t] = 0
                 /\ \A r \in DOMAIN dependency_graph : t \notin dependency_graph[r]
    /\ (pc = "sort_return" /\ \A t \in Range(tables) : sqlite_fks[t] = <<>> \/ SelfOnly(t))
          => /\ ~circular_warning
             /\ sorted_tables = tables

\* A run that returned on three tables, the second one referencing itself and no
\* table referencing another one.
C20_Witness ==
    /\ pc = "sort_return"
    /\ Len(tables) = 3
    /\ sqlite_fks = << <<>>, <<2>>, <<>> >>
    /\ in_degree[2] = 0
    /\ ~circular_warning

\* C22: the circular-dependency warning is logged only if the foreign keys between
\* the tables, self-references left out, form a cycle.
C22_WarningOnlyOnCycle ==
    (pc = "sort_return" /\ circular_warning) => ~Acyclic

\* C23: on tables whose foreign keys form a cycle, the order in which the tables
\* left over by the Kahn pass are appended is fixed by the input: the step that
\* appends them has one outcome.
C23_LeftOverOrderFixed ==
    (pc = "sort_check" /\ ~Acyclic)
        => Cardinality(Orders(LeftOver(tables, sorted_tables))) <= 1

\* The edges of the dependency graph as pairs <<referenced table, dependent table>>.
Edges ==
    UNION {{<<r, d>> : d \in dependency_graph[r]} : r \in DOMAIN dependency_graph}

\* The foreign key rows of the source that do not reference their own table.
OuterRows ==
    {<<t, i>> \in Range(tables) \X (1..(MaxFks + 1)) :
        i <= Len(sqlite_fks[t]) /\ sqlite_fks[t][i] # t}

\* C24: once the graph is built, the number of its edges is the number of foreign
\* keys minus the number of self-referencing foreign keys.
C24_EdgeCount ==
    (pc = "sort_seed") => Cardinality(Edges) = Cardinality(OuterRows)

\* The positions of the pass that empties the queue, up to the test that follows it.
KahnPositions == {"sort_while", "sort_for", "sort_check"}

\* The tables put in the queue so far, in the order they were: those taken out of it
\* and appended to the ordering, then those still in it.
Enqueued == sorted_tables \o no_dependencies

\* C35: in every state the counter of every table is at least 0; during the pass
\* each table is put in the queue, and appended to the ordering, at most once, and
\* a table is in the queue or appended only with a counter of 0.
C35_KahnPassInvariant ==
    /\ \A t \in DOMAIN in_degree : in_degree[t] >= 0
    /\ (pc \in KahnPositions)
          => /\ \A i, j \in 1..Len(Enqueued) : Enqueued[i] = Enqueued[j] => i = j
             /\ \A i \in 1..Len(Enqueued) : in_degree[Enqueued[i]] = 0

C35_Witness ==
    /\ pc = "sort_check"
    /\ Len(tables) = 3
    /\ sqlite_fks = <<<<>>, <<1>>, <<2>>>>
    /\ sorted_tables = <<1, 2, 3>>
    /\ \A t \in 1..3 : in_degree[t] = 0

\* --------------------------------------------- properties of the pipeline

\* C3: if the create statement of one table B is rejected by the target, every
\* other table was still executed and is recorded as created, and the failed set
\* is exactly {B}, once the loop of create_mysql_schema is over and at its return.
C3_FailureIsolated ==
    (pc \in {"cs_commit", "md_report"})
        => \A B \in Range(tables) :
              rejected = {B}
                  => /\ failed_tables = {B}
                     /\ \A A \in Range(tables) \ {B} :
                           A \in Range(executed) /\ A \in created_tables

\* Three tables, the first one executed rejected, the two after it created: one of
\* them references the rejected table, the other does not.
C3_Witness ==
    /\ pc = "md_report"
    /\ Len(tables) = 3
    /\ executed = <<3, 2, 1>>
    /\ rejected = {3}
    /\ failed_tables = {3}
    /\ created_tables = {1, 2}

\* C4: when create_mysql_schema has returned, the created set and the failed set
\* are disjoint and together hold every table of the input.
C4_CreatedAndFailedCoverInput ==
    (pc = "md_report")
        => /\ created_tables \cap failed_tables = {}
           /\ created_tables \cup failed_tables = Range(tables)

\* C5: no failure of Phase CREATE or Phase CONSTRAIN rolls back a statement that
\* had executed successfully.
C5_NoSuccessfulStatementRolledBack == rolled_back = {}

\* The steps of a run, read off the state.
CreateOver == "created_tables" \in Range(log)

TransferStarted == pc = "transfer" \/ transferred # {}

TransferOver == "transfer_finished" \in Range(log)

ConstraintsStarted == pc \in {"fk_loop", "fk_execute", "fk_commit"} \/ add_result # "none"

ConstraintsOver == add_result # "none"

ValidationStarted == pc \in {"compare_schemas", "compare_data"} \/ schemas_match # "none"

\* C6 as the specification words it: data transfer starts only after both phases of
\* the Schema Applier (tables, then constraints) are over, and validation runs after
\* data transfer.
C6_TransferAfterConstraints ==
    /\ TransferStarted => (CreateOver /\ ConstraintsOver)
    /\ ValidationStarted => TransferOver

\* C6, as the program runs: data transfer starts only after Phase CREATE is over and
\* ends before the first foreign key is added; validation runs after the
\* constraint phase.
C6_ConstraintsAfterTransfer ==
    /\ TransferStarted => CreateOver
    /\ ConstraintsStarted => TransferOver
    /\ ValidationStarted => ConstraintsOver

\* A run in validation whose rows were transferred and which added a foreign key.
C6_Witness ==
    /\ pc = "compare_data"
    /\ transferred # {}
    /\ \E j \in 1..Len(fk_log) : fk_log[j][3] = "added"

\* The clauses add_foreign_keys is given, as <<table, index>>.
Clauses ==
    UNION {{<<all_foreign_keys[k][1], i>> : i \in 1..Len(all_foreign_keys[k][2])} :
              k \in 1..Len(all_foreign_keys)}

ClauseText(c) ==
    LET k == CHOOSE k \in 1..Len(all_foreign_keys) : all_foreign_keys[k][1] = c[1]
    IN all_foreign_keys[k][2][c[2]]

Outcomes(c) == {j \in 1..Len(fk_log) : fk_log[j][1] = c[1] /\ fk_log[j][2] = c[2]}

\* C7: when the loops of add_foreign_keys are over, every clause was reached exactly
\* once, whatever happened to the clauses before it: it was logged as unparsed when
\* it does not parse, and as added or rejected when it does.
C7_EveryClauseAttempted ==
    (pc = "fk_commit")
        => \A c \in Clauses :
              /\ Cardinality(Outcomes(c)) = 1
              /\ \A j \in Outcomes(c) :
                    (fk_log[j][3] = "unparsed") <=> ~ForeignKeyParse(ClauseText(c)).ok

\* Four clauses in two tables: the first is not parsed, the second and the third are
\* rejected, the fourth is added.
C7_Witness ==
    /\ pc = "fk_commit"
    /\ Len(fk_log) = 4
    /\ fk_log[1][3] = "unparsed"
    /\ fk_log[2][3] = "rejected"
    /\ fk_log[3][3] = "rejected"
    /\ fk_log[4][3] = "added"
    /\ fk_log[1][1] = fk_log[2][1]
    /\ fk_log[3][1] = fk_log[4][1]
    /\ fk_log[2][1] # fk_log[3][1]

\* C8: add_foreign_keys returns True if and only if every clause it was given was
\* added to the target.
C8_TrueIffAllAdded ==
    (add_result # "none")
        => (add_result = "True" <=> \A c \in Clauses : <<"fk", c[1], c[2]>> \in committed)

\* What a run reports: the tables, the constraint phase, the validation outcome.
ReportedAll ==
    /\ "created_tables" \in Range(log)
    /\ add_result # "none"
    /\ Range(log) \cap {"validated", "validation_failed"} # {}

\* C9: a run that holds both connections, and in which neither a later connection
\* nor the validation itself raises, has reported the tables, run the constraint
\* phase and reported a validation outcome when it is over. (main takes no step after
\* "done", so a run that is over without the reports never makes them.)
C9_FinishedRunReportedAll ==
    (pc = "done" /\ raised \notin {"connect", "validation"}) => ReportedAll

\* The positions of a run inside sort_tables_by_dependency.
SortPositions ==
    {"sort_enter", "sort_get", "sort_fk", "sort_seed", "sort_while", "sort_for",
     "sort_check", "sort_return"}

\* C21: whatever the tables and their foreign keys, sort_tables_by_dependency does
\* not raise: a run that is inside it stays inside it until it returns its ordering
\* to the loop of create_mysql_schema.
C21_ResolverNeverRaises ==
    [][(pc \in SortPositions) => (pc' \in SortPositions \/ pc' = "cs_loop")]_vars

\* The tables that have an entry in the mapping create_mysql_schema returns.
EntryTables == {all_foreign_keys[k][1] : k \in 1..Len(all_foreign_keys)}

\* C25: every table create_mysql_schema has processed, the failed ones included, has
\* an entry in the foreign key mapping, and when the loops of add_foreign_keys are
\* over every clause of a failed table was attempted.
C25_FailedTablesKeepTheirClauses ==
    /\ Range(executed) \subseteq EntryTables
    /\ failed_tables \subseteq EntryTables
    /\ (pc = "fk_commit")
          => \A c \in Clauses : c[1] \in failed_tables => Outcomes(c) # {}

\* The table items was rejected by the target, and each of its two clauses was
\* sent to the target when the foreign keys were added.
C25_Witness ==
    /\ pc = "fk_commit"
    /\ Len(tables) = 3
    /\ failed_tables = {1}
    /\ <<1, 2>> \in Clauses
    /\ \E j \in Outcomes(<<1, 1>>) : fk_log[j][3] = "rejected"
    /\ \E j \in Outcomes(<<1, 2>>) : fk_log[j][3] = "rejected"

\* C31: the target holding no table before the run, "Migration successful and
\* validated." is logged only when no table failed. When a table failed and the run
\* gets to the validation, compare_schemas returns False, compare_data is called on
\* no table, and the run that ends without an exception has logged the failed
\* validation.
C31_ValidatedOnlyWithoutFailures ==
    /\ ("validated" \in Range(log)) => failed_tables = {}
    /\ (failed_tables # {} /\ schemas_match # "none")
          => /\ schemas_match = "False"
             /\ compared = {}
    /\ (failed_tables # {} /\ pc = "done" /\ raised = "none")
          => "validation_failed" \in Range(log)

C31_Witness ==
    /\ pc = "done"
    /\ raised = "none"
    /\ Len(tables) = 3
    /\ failed_tables = {2}
    /\ created_tables = {1, 3}
    /\ transferred = {1, 3}
    /\ schemas_match = "False"
    /\ compared = {}
    /\ "validation_failed" \in Range(log)

\* C32: rows are written to, and compared for, the tables of the created set only:
\* no table whose CREATE statement failed is transferred or compared.
C32_OnlyCreatedTablesTransferredAndCompared ==
    /\ to_transfer \cup transferred \subseteq created_tables
    /\ to_compare \cup compared \subseteq created_tables
    /\ (transferred \cup compared) \cap failed_tables = {}

C32_Witness ==
    /\ pc = "compare_data"
    /\ Len(tables) = 3
    /\ failed_tables = {2}
    /\ transferred = {1, 3}
    /\ to_compare = {1, 3}

\* ------------------------------------------- properties of the translator

Str_id_column_translated ==
    <<"(", "i", "d", " ", "B", "I", "G", "I", "N", "T", " ", "P", "R", "I", "M", "A",
      "R", "Y", " ", "K", "E", "Y", " ", "A", "U", "T", "O", "_", "I", "N", "C", "R",
      "E", "M", "E", "N", "T", " ", ",">>

Str_name_column_translated ==
    <<" ", "n", "a", "m", "e", " ", "T", "E", "X", "T", " ", "N", "O", "T", " ", "N",
      "U", "L", "L", ")">>

Sql_t ==
    <<"C", "R", "E", "A", "T", "E", " ", "T", "A", "B", "L", "E", " ", "t", " ", "(",
      "i", "d", " ", "I", "N", "T", "E", "G", "E", "R", " ", "P", "R", "I", "M", "A",
      "R", "Y", " ", "K", "E", "Y", " ", "A", "U", "T", "O", "I", "N", "C", "R", "E",
      "M", "E", "N", "T", ",", " ", "n", "a", "m", "e", " ", "T", "E", "X", "T", " ",
      "N", "O", "T", " ", "N", "U", "L", "L", ")">>

Mysql_t ==
    <<"C", "R", "E", "A", "T", "E", " ", "T", "A", "B", "L", "E", " ", "t", " ", "(",
      "i", "d", " ", "B", "I", "G", "I", "N", "T", " ", "P", "R", "I", "M", "A", "R",
      "Y", " ", "K", "E", "Y", " ", "A", "U", "T", "O", "_", "I", "N", "C", "R", "E",
      "M", "E", "N", "T", " ", ",", " ", "n", "a", "m", "e", " ", "T", "E", "X", "T",
      " ", "N", "O", "T", " ", "N", "U", "L", "L", ")", " ", "D", "E", "F", "A", "U",
      "L", "T", " ", "C", "H", "A", "R", "S", "E", "T", "=", "u", "t", "f", "8", "m",
      "b", "4", " ", "C", "O", "L", "L", "A", "T", "E", "=", "u", "t", "f", "8", "m",
      "b", "4", "_", "u", "n", "i", "c", "o", "d", "e", "_", "c", "i">>

\* C10: on a definition with an INTEGER PRIMARY KEY AUTOINCREMENT column, a TEXT NOT
\* NULL column and no foreign key, the result types the first column BIGINT with
\* PRIMARY KEY AUTO_INCREMENT, the second TEXT with NOT NULL, and the returned list of
\* foreign keys is empty.
C10_KeyAndTextColumns ==
    (/\ pc = "cv_return"
     /\ \E table_name \in {Str_t, Name_users} :
           sqlite_statement =
               Definition(table_name, Col_id_autoincrement, Col_name_not_null, <<>>))
        => /\ Contains(mysql_statement, Str_id_column_translated)
           /\ Contains(mysql_statement, Str_name_column_translated)
           /\ convert_foreign_keys = <<>>

\* The definition the specification quotes, translated.
C10_Witness ==
    /\ pc = "cv_return"
    /\ sqlite_statement = Sql_t
    /\ mysql_statement = Mysql_t
    /\ convert_foreign_keys = <<>>

\* The text holds FOREIGN KEY in some letter case.
HoldsForeignKey(statement) == Contains(UpperStr(statement), Str_FOREIGN_KEY)

\* C11: on a definition holding one named clause CONSTRAINT c FOREIGN KEY (col)
\* REFERENCES t(id), exactly one clause is returned, it references t(id), and the
\* returned CREATE TABLE text holds no FOREIGN KEY text.
C11_NamedClauseExtracted ==
    (pc = "cv_return")
        => \A separator \in Separators, referenced \in {Name_users, Name_dates},
              rest \in {<<>>, Col_note} :
              sqlite_statement = Keyed(separator, NamedClause(referenced), rest)
                  => /\ Len(convert_foreign_keys) = 1
                     /\ ForeignKeyParse(convert_foreign_keys[1]).ok
                     /\ ForeignKeyParse(convert_foreign_keys[1]).referenced_table
                            = referenced
                     /\ ForeignKeyParse(convert_foreign_keys[1]).referenced_column
                            = <<"i", "d">>
                     /\ ~HoldsForeignKey(mysql_statement)

\* C12: whether the foreign key of a definition is named or not, it is extracted into
\* the returned list and the CREATE TABLE statement for the target holds no foreign
\* key.
C12_NoForeignKeyInCreate ==
    (pc = "cv_return" /\ sqlite_statement \in KeyedDefinitions)
        => /\ Len(convert_foreign_keys) = 1
           /\ ~HoldsForeignKey(mysql_statement)

\* The number of places of the text that hold the character.
Occurrences(statement, character) ==
    Cardinality({i \in 1..Len(statement) : statement[i] = character})

\* Every closing parenthesis of the text closes one opened before it, and every one
\* opened is closed.
Balanced(statement) ==
    /\ Occurrences(statement, "(") = Occurrences(statement, ")")
    /\ \A i \in 1..Len(statement) :
          Occurrences(SubSeq(statement, 1, i), ")")
              <= Occurrences(SubSeq(statement, 1, i), "(")

\* A comma of the text has a closing parenthesis as the next thing after it.
DanglingComma(statement) ==
    \E i \in 1..Len(statement), j \in 1..Len(statement) :
        /\ i < j
        /\ statement[i] = ","
        /\ statement[j] = ")"
        /\ \A k \in (i + 1)..(j - 1) : statement[k] \in Spaces

\* C29: the CREATE TABLE text returned for a definition with balanced parentheses has
\* balanced parentheses, the one closing the column list among them, and no comma
\* left dangling before a closing parenthesis, also when the last clause of the
\* definition is a named foreign key.
C29_StrippedStatementWellFormed ==
    (pc = "cv_return" /\ Balanced(sqlite_statement))
        => /\ Balanced(mysql_statement)
           /\ ~DanglingComma(mysql_statement)

\* ----------------------------------------- properties of the type mappers

\* C13: for every name sqlite_to_mysql_type knows, written in any letter case and
\* followed or not by a size, the result is the target type configured for the name.
C13_KnownNameAnyCaseAnySize ==
    (pc = "tm_return")
        => \A k \in 1..Len(ddl_type_mapping), case \in LetterCases, size \in Sizes :
              declared_type = Written(ddl_type_mapping[k][1], case) \o size
                  => returned_type = ddl_type_mapping[k][2]

C13_Witness ==
    /\ pc = "tm_return"
    /\ declared_type = Written(Str_BOOLEAN, "lower") \o Size_10
    /\ returned_type = Str_TINYINT_1

\* No name sqlite_to_mysql_type knows stands at the start of the base type.
UnknownType(sqlite_type) ==
    \A k \in 1..Len(ddl_type_mapping) :
        ~StartsAt(BaseType(sqlite_type), 1, ddl_type_mapping[k][1])

\* C14: sqlite_to_mysql_type returns a text for every text it is called on, and a
\* text whose base type starts with none of the known names is returned unchanged.
C14_TotalAndUnknownUnchanged ==
    /\ (pc = "type_call") => ENABLED CallSqliteToMysqlType
    /\ (pc = "tm_return")
          => /\ DOMAIN returned_type = 1..Len(returned_type)
             /\ UnknownType(declared_type) => returned_type = declared_type

C14_Witness ==
    /\ pc = "tm_return"
    /\ declared_type = Written(Str_VARCHAR, "lower") \o Size_10
    /\ UnknownType(declared_type)
    /\ returned_type = declared_type

\* C15: normalize_type gives one and the same type, BIGINT, for TINYINT, SMALLINT,
\* INT, INTEGER and BIGINT, with or without a display width.
C15_IntegerTypesOneBucket ==
    (pc = "nt_return")
        => \A word \in IntegerTypes, case \in LetterCases, size \in Sizes :
              declared_type = Written(word, case) \o size
                  => returned_type = Str_BIGINT

C15_Witness ==
    /\ pc = "nt_return"
    /\ declared_type = Str_TINYINT \o Size_10
    /\ returned_type = Str_BIGINT

\* C28: for every name sqlite_to_mysql_type knows, normalize_type gives the declared
\* type and the type sqlite_to_mysql_type creates the column with the same type, so
\* that compare_schemas sees the same pair on both sides.
C28_ValidatorAgreesWithDdlMapper ==
    (pc = "nt_return")
        => \A k \in 1..Len(ddl_type_mapping) :
              declared_type = ddl_type_mapping[k][1]
                  => returned_type = normalize_type(sqlite_to_mysql_type(declared_type))

\* ------------------------------------------- properties of the validation

\* The tables compare_schemas reported as missing or as differing in their columns.
ReportedTables ==
    UNION {schema_log[i].about : i \in 1..Len(schema_log)}

\* The tables that are on one side only, and those whose columns differ.
MismatchingTables ==
    (sqlite_table_set \ mysql_table_set) \cup (mysql_table_set \ sqlite_table_set)
        \cup differing

\* C16: when compare_schemas has returned, every mismatching table (missing on one
\* side, or with differing columns) was reported, not only the first one found, and
\* every table with differing columns was examined.
C16_EveryMismatchReported ==
    (pc = "schemas_return")
        => /\ MismatchingTables \subseteq ReportedTables
           /\ differing \subseteq examined

\* The table compare_data stopped at: the first one whose frames are not equal.
StoppedAt == data_tables[dt]

\* C17: when compare_data has returned at a table whose row counts differ, it logged
\* the mismatch with both counts, it returned False, and it did not call the
\* row-by-row comparison on that table.
C17_CountMismatchReportedNoRowCompare ==
    (pc = "data_return" /\ dt <= Len(data_tables)
       /\ sqlite_counts[StoppedAt] # mysql_counts[StoppedAt])
        => /\ \E i \in 1..Len(data_log) :
                data_log[i] = DataReport("row_count", StoppedAt,
                                         sqlite_counts[StoppedAt], mysql_counts[StoppedAt])
           /\ \E i \in 1..Len(data_log) :
                data_log[i].kind = "row_count_mismatch" /\ data_log[i].table_name = StoppedAt
           /\ data_result = "False"
           /\ StoppedAt \notin row_compared

C17_Witness ==
    /\ pc = "data_return"
    /\ Len(data_tables) = 2
    /\ dt = 2
    /\ sqlite_counts[2] = 2
    /\ mysql_counts[2] = 1
    /\ data_result = "False"
    /\ row_compared = {}

\* ---------------------------------------- properties of the type reconciler

\* The columns the pass reached, and those it sent an ALTER TABLE for.
ReachedColumns == {alter_log[i][1] : i \in 1..Len(alter_log)}

AlteredColumns ==
    {alter_log[i][1] : i \in {j \in 1..Len(alter_log) : alter_log[j][2] # "not_found"}}

\* C18: when the pass has returned and the only failures were rejected ALTER TABLE
\* statements, every foreign key column was reached: a rejected statement does not
\* keep the pass from the columns after it.
C18_AlterFailureIsolated ==
    (pc = "reconcile_return" /\ reconcile_raised \in {"none", "alter"})
        => ReachedColumns = 1..Len(fk_rows)

\* C19: an ALTER TABLE ... MODIFY COLUMN was sent for a foreign key column only if
\* the type of the referenced column, translated, differs from the type the column has.
C19_AlterOnlyIfTypesDiffer ==
    \A k \in AlteredColumns :
        sqlite_to_mysql_type(fk_rows[k].ref_column_info[1]) # fk_rows[k].fk_column_type

\* --------------------------------- properties of the rendered constraint

EndsWith(s, word) ==
    /\ Len(word) <= Len(s)
    /\ StartsAt(s, Len(s) - Len(word) + 1, word)

\* The positions at which the statement of the clause is rendered.
Rendered == pc \in {"render_execute", "render_added", "render_rejected"}

\* C26: for a clause that names no ON DELETE action the rendered statement reads ON
\* DELETE RESTRICT, and for a clause that names no ON UPDATE action it reads ON UPDATE
\* RESTRICT.
C26_DefaultRestrict ==
    Rendered
        => \A on_delete \in ReferentialActions \cup {<<>>},
              on_update \in ReferentialActions \cup {<<>>}, tail \in {<<>>, <<")">>} :
              fk_text = ClauseWith(on_delete, on_update, tail)
                  => /\ on_delete = <<>>
                          => Contains(fk_sql, Alter_6 \o Str_RESTRICT \o Alter_7)
                     /\ on_update = <<>>
                          => EndsWith(fk_sql, Alter_7 \o Str_RESTRICT \o Alter_8)

\* A clause with ON UPDATE CASCADE and no ON DELETE, sent to the target.
C26_Witness ==
    /\ pc = "render_added"
    /\ fk_text = ClauseWith(<<>>, Str_CASCADE, <<>>)
    /\ fk_sql = AlterText(Name_orders, Str_fk_user, Str_user_id, Name_users, Str_id,
                          Str_RESTRICT, Str_CASCADE)

\* C27: for a clause that names ON DELETE a and ON UPDATE b, the rendered statement
\* is the ALTER TABLE of the clause's constraint name, column, referenced table and
\* referenced column with exactly ON DELETE a ON UPDATE b.
C27_BothActionsCarried ==
    Rendered
        => \A on_delete \in ReferentialActions, on_update \in ReferentialActions,
              tail \in {<<>>, <<")">>} :
              fk_text = ClauseWith(on_delete, on_update, tail)
                  => fk_sql = AlterText(Name_orders, Str_fk_user, Str_user_id,
                                        Name_users, Str_id, on_delete, on_update)

\* ------------------------------------------------------- properties of main

\* main has come to its end, by returning or by an exception nothing caught.
MainEnded == pc \in {"main_returned", "main_unhandled"}

\* The text is one of the lines logged.
Logged(line) == \E i \in 1..Len(main_log) : main_log[i] = line

\* C30: when connect_sqlite gave no connection, by returning None or by raising after
\* its retries, main logs the failure and returns: no exception leaves it, the
\* finally block that closes the connection included.
C30_NoSqliteConnectionHandled ==
    (MainEnded /\ sqlite_conn \in {"None", "unbound"})
        => /\ Logged("connect_failed") \/ Logged("unexpected_error")
           /\ pc = "main_returned"
           /\ unhandled = "none"

\* The number of lines of the log that are the text.
TimesLogged(line) == Cardinality({i \in 1..Len(main_log) : main_log[i] = line})

\* C34: when opening the source fails with sqlite3.Error, connect_sqlite tries again:
\* it gives the failure up, returning no connection, only after max_attempts failed
\* attempts.
C34_SqliteErrorRetried ==
    (sqlite_conn = "None") => TimesLogged("sqlite_error") = max_attempts

\* ---------------------------------------------------- properties of retry

\* The places of retry_events that are calls of the function.
CallPlaces == {i \in 1..Len(retry_events) : retry_events[i] # "sleep"}

SleepPlaces == {i \in 1..Len(retry_events) : retry_events[i] = "sleep"}

\* The wrapper is over, by a return or by an exception.
RetryEnded == pc \in {"retry_return", "retry_raise"}

\* C33: for max_attempts >= 1 the function is called at most max_attempts times; the
\* value of the first call that does not raise is returned and no call follows it;
\* after max_attempts calls that all raised, the exception of the last one is raised;
\* a delay happens only between two calls, so at most max_attempts - 1 times.
C33_RetryWrapper ==
    (retry_max >= 1)
        => /\ Cardinality(CallPlaces) <= retry_max
           /\ \A i \in CallPlaces :
                 retry_events[i] \in FuncResults
                     => /\ i = Len(retry_events)
                        /\ pc = "retry_return"
                        /\ retry_outcome = <<"returned", retry_events[i]>>
           /\ (\A i \in CallPlaces : retry_events[i] \in FuncExceptions)
                 => /\ Cardinality(CallPlaces) = retry_max
                        <=> pc = "retry_raise"
                    /\ pc = "retry_raise"
                          => retry_outcome = <<"raised", retry_events[Len(retry_events)]>>
                    /\ pc # "retry_return"
           /\ \A i \in SleepPlaces :
                 /\ i - 1 \in CallPlaces
                 /\ i < Len(retry_events) => i + 1 \in CallPlaces
                 /\ i = Len(retry_events) => ~RetryEnded
           /\ Cardinality(SleepPlaces) <= retry_max - 1

C33_Witness ==
    /\ pc = "retry_raise"
    /\ retry_max = 3
    /\ retry_events = <<"TypeError", "sleep", "ValueError", "sleep", "TypeError">>
    /\ retry_outcome = <<"raised", "TypeError">>

====
